---- MODULE Spec2Model ----
(***************************************************************************)
(* Connection Manager of rustRoast (crates/mqtt/src/client.rs).            *)
(*                                                                         *)
(* One background task (run_eventloop) polls the broker transport, keeps   *)
(* the ready flag and the backoff, replays the tracked subscriptions on    *)
(* every broker acknowledgment and emits normalized events; any number of  *)
(* caller tasks use the public API (subscribe, resubscribe_tracked,        *)
(* disconnect) of the shared MqttService handle.  Steps are taken at the   *)
(* await points of the source: a step runs from one await to the next.     *)
(***************************************************************************)
EXTENDS Integers, Sequences, FiniteSets, TLC

(* ---------------------------------------------------------------------- *)
(* Bounds of the model                                                     *)
(* ---------------------------------------------------------------------- *)
\* consecutive transport errors explored between two broker acknowledgments
MaxErrs == 7
\* number of most recent emitted events the model keeps of the event stream
BusWindow == 1
\* events the broadcast channel retains: broadcast::channel(256), scaled
BusCapacity == 2
\* events the channel stores in one explored run
MaxSent == 4
\* events mqtt_consumer_loop handles in one explored run
MaxEvents == 2
\* roast sessions created in one explored run
MaxSessions == 2

\* RUSTROAST_DB_RETENTION_SECS, in ticks of the model's clock
RetentionTtl == 1

\* the handlers of the session API that are called
ApiNames == {"create", "start", "pause", "resume", "complete"}

\* keepalive frames a debug client sends
MaxPings == 2

\* capacity of the client's request channel: AsyncClient::new(opts, 64)
ReqCapacity == 2

\* publish requests callers send into a request channel
MaxReqs == 2

\* caller tasks holding a clone of the MqttService handle
Callers == {"c1", "c2"}
\* topic filters callers subscribe to
Topics == {"t1", "t2"}
\* rumqttc::QoS levels used by the callers
QoSLevels == {0, 1}
\* incoming broker messages: <<topic, payload>>
Messages == {<<"m1", "x">>, <<"m2", "y">>}
\* packet ids of incoming PubAck packets
PacketIds == {7}
\* receiver handles returned by MqttService::events()
Receivers == {"r1", "r2"}
\* device ids that occur in topics
Devices == {"d1", "d2"}

(* ---------------------------------------------------------------------- *)
(* Program constants                                                       *)
(* ---------------------------------------------------------------------- *)
BackoffFloor == 1
SleepCap == 30
BackoffCeiling == 60

VARIABLES
    ready,          \* MqttService.ready (AtomicBool)
    subscriptions,  \* MqttService.subscriptions: HashMap<String, QoS>
    backoff_secs,   \* run_eventloop local
    wait,           \* run_eventloop local: duration of the latest sleep
    loopPc,         \* await point at which run_eventloop stands
    loopTodo,       \* topics the replay iterator has not visited yet
    loopIssued,     \* subscribe calls issued by the current/latest replay
    polled,         \* value returned by the latest eventloop.poll()
    bus,            \* the latest BusWindow events sent on events_tx
    netUp,          \* the polled EventLoop has an established session
    clientStale,    \* client_shared belongs to an EventLoop already dropped
    discPending,    \* a Disconnect request is queued for the polled EventLoop
    clientLock,     \* holder of the Mutex<AsyncClient>
    subsReaders,    \* tasks holding a read guard of the subscriptions RwLock
    pc,             \* per caller: await point of its current API call
    cTopic, cQos,   \* per caller: arguments of the current subscribe call
    cTodo,          \* per caller: topics resubscribe_tracked has not visited
    cIssued,        \* per caller: subscribe calls issued by resubscribe_tracked
    cResult,        \* per caller: result of the latest returned call
    errs,           \* transport errors since the latest broker acknowledgment
    acked,          \* topics for which subscribe() has returned Ok
    chanLog,        \* events stored by the broadcast channel, oldest first;
                    \* the channel retains the latest BusCapacity of them
    lastSend,       \* result of the latest events_tx.send()
    rxState,        \* per receiver handle: "none", "open" or "closed"
    rxKind,         \* per receiver handle: the task that owns it
    rxNext,         \* per receiver handle: position of the next event to read
    rxFrom,         \* per receiver handle: events stored before events()
    rxGot,          \* per receiver handle: what recv() has returned Ok
    rxLost,         \* per receiver handle: events reported lost by Lagged
    telemetry_cache,        \* device id -> (decoded telemetry, arrival time)
    autotune_status_cache,  \* device id -> (decoded auto-tune status, time)
    autotune_results_cache, \* device id -> (decoded auto-tune results, time)
    device_registry,        \* device id -> DeviceInfo
    telemetry_tbl,          \* rows of table telemetry, in insertion order
    autotune_status_tbl,    \* rows of table autotune_status
    autotune_results_tbl,   \* rows of table autotune_results
    session_telemetry_tbl,  \* rows of table session_telemetry
    now,                    \* latest value epoch_secs() returned
    seen,                   \* what rx.recv() returned to mqtt_consumer_loop
    mqtt_connected,         \* gauge metrics.mqtt_connected
    mqtt_rx_total,          \* counter metrics.mqtt_rx_total
    telemetry_last_seen,    \* gauge metrics.telemetry_last_seen per device
    status_last_seen,       \* gauge metrics.status_last_seen per device
    roast_sessions,         \* rows of table roast_sessions, in insertion order
    session_seq,            \* session ids handed out by Uuid::new_v4 so far
    dbFail,                 \* tables on which a statement fails at present
    ws_clients,     \* gauge metrics.ws_clients
    ws_state,       \* telemetry_ws_loop: not started, at "recv", or how it ended
    ws_in,          \* events telemetry_ws_loop has taken from its handle
    ws_out,         \* text frames telemetry_ws_loop has sent to its client
    pings,          \* {"type":"ping"} frames the debug client has sent
    pongs,          \* {"type":"pong"} frames debug_ws_loop has sent
    ackPc,          \* publish_qos1_and_maybe_wait_ack: the await it stands at
    ackWait,        \* its wait_ack argument
    ackResp,        \* the status code it returned, 0 before it returns
    apiCall,        \* the latest call of a session handler: <<name, session id>>
    apiResp,        \* the status code that handler returned
    requests,       \* the request channel of the shared AsyncClient, oldest first
    reqSeq,         \* publish requests sent into a request channel so far
    accepted,       \* publish requests whose client.publish(..) returned Ok
    handed,         \* publish requests a poll() took off the channel
    discarded       \* publish requests that were queued on a dropped EventLoop

\* state of the MqttService and of run_eventloop
connVars == <<ready, subscriptions, backoff_secs, wait, loopPc, loopTodo,
              loopIssued, polled, bus, netUp, clientStale, discPending,
              clientLock, subsReaders, pc, cTopic, cQos, cTodo, cIssued,
              cResult, errs, acked>>

\* state of the broadcast channel and of its receivers
chanVars == <<chanLog, lastSend, rxState, rxKind, rxNext, rxFrom, rxGot,
              rxLost>>

\* what mqtt_consumer_loop writes: caches, registry, tables and metrics
storeVars == <<telemetry_cache, autotune_status_cache, autotune_results_cache,
               device_registry, telemetry_tbl, autotune_status_tbl,
               autotune_results_tbl, session_telemetry_tbl>>

metricVars == <<mqtt_connected, mqtt_rx_total, telemetry_last_seen,
                status_last_seen>>

cacheVars == <<storeVars, metricVars, now, seen>>

\* the session table and the condition of the database
dbVars == <<roast_sessions, session_seq, dbFail>>

\* the WebSocket bridges and the control handler of the server
wsVars == <<ws_clients, ws_state, ws_in, ws_out, pings, pongs, ackPc, ackWait,
            ackResp>>

\* the session handlers of the server
apiVars == <<apiCall, apiResp>>

\* the request channel between the AsyncClient and its EventLoop
reqVars == <<requests, reqSeq, accepted, handed, discarded>>

vars == <<connVars, chanVars, cacheVars, dbVars, wsVars, apiVars, reqVars>>

loopVars == <<backoff_secs, wait, loopPc, loopTodo, loopIssued, polled,
              bus, netUp, errs>>
callerVars == <<pc, cTopic, cQos, cTodo, cIssued, cResult, acked>>

(* ---------------------------------------------------------------------- *)
(* Helpers                                                                 *)
(* ---------------------------------------------------------------------- *)
Min(a, b) == IF a <= b THEN a ELSE b

NoTopic == "-"
NoLock == "none"
LoopTask == "loop"

\* MqttEvent values
Connected == [type |-> "Connected"]
\* cause ("error" or "request") is an annotation of the model: the event of the
\* source carries no field; it records which arm of run_eventloop sent it
Disconnected(cause) == [type |-> "Disconnected", cause |-> cause]
Publish(t, p) == [type |-> "Publish", topic |-> t, payload |-> p]
PubAck(id) == [type |-> "PubAck", pkid |-> id]

\* values eventloop.poll() can return
PollConnAck == [kind |-> "ConnAck"]
PollPublish(t, p) == [kind |-> "Publish", topic |-> t, payload |-> p]
PollPubAck(id) == [kind |-> "PubAck", pkid |-> id]
PollOutDisconnect == [kind |-> "OutDisconnect"]
PollOther == [kind |-> "Other"]
PollErr == [kind |-> "Err"]
PollNone == [kind |-> "None"]

\* events_tx.send(e): the event enters the stream, the oldest one leaves the
\* window the model keeps
Send(b, e) ==
    IF Len(b) < BusWindow THEN Append(b, e) ELSE Append(Tail(b), e)

\* a map that forgets the other keys on insert
Insert_Replace(m, t, q) == (t :> q)

\* HashMap::insert: adds the key or overwrites its value
Insert(m, t, q) == (t :> q) @@ m

\* an acquisition of subscriptions.read() is queued behind a waiting writer
WriterWaiting == \E c \in Callers : pc[c] = "sub_wwait"

Init ==
    /\ ready = FALSE
    /\ subscriptions = <<>>
    /\ backoff_secs = BackoffFloor
    /\ wait = 0
    /\ loopPc = "poll"
    /\ loopTodo = {}
    /\ loopIssued = <<>>
    /\ polled = PollNone
    /\ bus = <<>>
    /\ netUp = FALSE
    /\ clientStale = FALSE
    /\ discPending = FALSE
    /\ clientLock = NoLock
    /\ subsReaders = {}
    /\ pc = [c \in Callers |-> "idle"]
    /\ cTopic = [c \in Callers |-> NoTopic]
    /\ cQos = [c \in Callers |-> 0]
    /\ cTodo = [c \in Callers |-> {}]
    /\ cIssued = [c \in Callers |-> <<>>]
    /\ cResult = [c \in Callers |-> "none"]
    /\ errs = 0
    /\ acked = {}
    /\ chanLog = <<>>
    /\ lastSend = "none"
    /\ rxState = [r \in Receivers |-> "none"]
    /\ rxKind = [r \in Receivers |-> "none"]
    /\ rxNext = [r \in Receivers |-> 0]
    /\ rxFrom = [r \in Receivers |-> 0]
    /\ rxGot = [r \in Receivers |-> <<>>]
    /\ rxLost = [r \in Receivers |-> 0]
    /\ telemetry_cache = <<>>
    /\ autotune_status_cache = <<>>
    /\ autotune_results_cache = <<>>
    /\ device_registry = <<>>
    /\ telemetry_tbl = <<>>
    /\ autotune_status_tbl = <<>>
    /\ autotune_results_tbl = <<>>
    /\ session_telemetry_tbl = <<>>
    /\ now = 1
    /\ seen = <<>>
    /\ mqtt_connected = 0
    /\ mqtt_rx_total = 0
    /\ telemetry_last_seen = <<>>
    /\ status_last_seen = <<>>
    /\ roast_sessions = <<>>
    /\ session_seq = 0
    /\ dbFail = {}
    /\ ws_clients = 0
    /\ ws_state = "idle"
    /\ ws_in = <<>>
    /\ ws_out = <<>>
    /\ pings = 0
    /\ pongs = 0
    /\ ackPc = "idle"
    /\ ackWait = FALSE
    /\ ackResp = 0
    /\ apiCall = <<>>
    /\ apiResp = 0
    /\ requests = <<>>
    /\ reqSeq = 0
    /\ accepted = {}
    /\ handed = {}
    /\ discarded = {}

(* ---------------------------------------------------------------------- *)
(* Transport (rumqttc EventLoop / AsyncClient) as seen by this code        *)
(* ---------------------------------------------------------------------- *)
\* values eventloop.poll() can return: an EventLoop without a session first
\* connects (ConnAck or an error); one with a session returns packets, the
\* outgoing requests it has sent, or an error
PollResults ==
    IF ~netUp
    THEN {PollConnAck} \cup (IF errs < MaxErrs THEN {PollErr} ELSE {})
    ELSE {PollPublish(m[1], m[2]) : m \in Messages}
         \cup {PollPubAck(i) : i \in PacketIds}
         \cup {PollOther}
         \cup (IF discPending THEN {PollOutDisconnect} ELSE {})
         \cup (IF errs < MaxErrs THEN {PollErr} ELSE {})

\* results of a call on the AsyncClient: the request is queued for the
\* EventLoop (ok) or refused; a client whose EventLoop is gone refuses all
ClientCallResults == IF clientStale THEN {"err"} ELSE {"ok", "err"}

(* ---------------------------------------------------------------------- *)
(* run_eventloop                                                           *)
(* ---------------------------------------------------------------------- *)
\* wait = backoff_secs.min(30)
SleepFor(b) == Min(b, SleepCap)

\* a doubling without its ceiling
NextBackoff_NoCeiling(b) == b * 2

\* backoff_secs = (backoff_secs * 2).min(60)
NextBackoff(b) == Min(b * 2, BackoffCeiling)

\* a replay that subscribes at a fixed QoS::AtMostOnce
ReplayQos_AtMostOnce(subs, t) == 0

\* the QoS the replay passes to client.subscribe(topic, *qos)
ReplayQos(subs, t) == subs[t]

\* a ConnAck arm that sends no event
EmitConnected_Silent(b) == b

\* let _ = events_tx.send(MqttEvent::Connected)
EmitConnected(b) == Send(b, Connected)

\* a Publish arm that forwards messages only while the service is ready
EmitPublish_OnlyWhenReady(b, r, rdy) ==
    IF rdy THEN Send(b, Publish(r.topic, r.payload)) ELSE b

\* let _ = events_tx.send(MqttEvent::Publish { topic, payload }): the ready
\* flag rdy is not consulted
EmitPublish(b, r, rdy) == Send(b, Publish(r.topic, r.payload))

\* Ok(Incoming::ConnAck): ready, Connected, then await subscriptions.read()
LoopConnAck ==
    /\ loopPc = "poll"
    /\ PollConnAck \in PollResults
    /\ polled' = PollConnAck
    /\ netUp' = TRUE
    /\ errs' = 0
    /\ ready' = TRUE
    /\ bus' = EmitConnected(bus)
    /\ loopPc' = "replay_read"
    /\ UNCHANGED <<subscriptions, backoff_secs, wait, loopTodo, loopIssued,
                   clientStale,
                   discPending, clientLock, subsReaders, callerVars>>
    /\ UNCHANGED <<chanVars, cacheVars, dbVars, wsVars, apiVars, reqVars>>

\* subscriptions.read().await is granted
LoopReplayRead ==
    /\ loopPc = "replay_read"
    /\ ~WriterWaiting
    /\ subsReaders' = subsReaders \cup {LoopTask}
    /\ loopPc' = "replay_lock"
    /\ UNCHANGED <<ready, subscriptions, backoff_secs, wait, loopTodo,
                   loopIssued, polled, bus, netUp, clientStale, discPending,
                   clientLock, callerVars, errs>>
    /\ UNCHANGED <<chanVars, cacheVars, dbVars, wsVars, apiVars, reqVars>>

\* client_shared.lock().await is granted; the iteration over subs begins
LoopReplayLock ==
    /\ loopPc = "replay_lock"
    /\ clientLock = NoLock
    /\ clientLock' = LoopTask
    /\ loopTodo' = DOMAIN subscriptions
    /\ loopPc' = "replay"
    /\ UNCHANGED <<ready, subscriptions, backoff_secs, wait, loopIssued,
                   polled, bus, netUp, clientStale, discPending, subsReaders,
                   callerVars, errs>>
    /\ UNCHANGED <<chanVars, cacheVars, dbVars, wsVars, apiVars, reqVars>>

\* a replay that gives up at the first failed subscribe call
ReplayRest_StopOnErr(todo, t, res) ==
    IF res = "err" THEN {} ELSE todo \ {t}

\* if let Err(err) = client.subscribe(..).await { warn!(..) }: the result is
\* only logged and the for loop goes on to the next tracked topic
ReplayRest(todo, t, res) == todo \ {t}

\* one iteration: client.subscribe(topic, *qos).await, a failure is logged
LoopReplayCall ==
    /\ loopPc = "replay"
    /\ \E t \in loopTodo, res \in ClientCallResults :
        /\ loopIssued' = Append(loopIssued,
               [topic |-> t, qos |-> ReplayQos(subscriptions, t),
                stale |-> clientStale, res |-> res])
        /\ loopTodo' = ReplayRest(loopTodo, t, res)
    /\ UNCHANGED <<ready, subscriptions, backoff_secs, wait, loopPc, polled,
                   bus, netUp, clientStale, discPending, clientLock,
                   subsReaders, callerVars, errs>>
    /\ UNCHANGED <<chanVars, cacheVars, dbVars, wsVars, apiVars>>

\* the iteration where the request channel always has room
LoopReplayNext == LoopReplayCall /\ UNCHANGED reqVars

\* the iteration is over: drop(client), drop(subs), backoff_secs = 1
LoopReplayDone ==
    /\ loopPc = "replay"
    /\ loopTodo = {}
    /\ clientLock' = NoLock
    /\ subsReaders' = subsReaders \ {LoopTask}
    /\ backoff_secs' = BackoffFloor
    /\ loopIssued' = <<>>
    /\ loopPc' = "poll"
    /\ UNCHANGED <<ready, subscriptions, wait, loopTodo, polled, bus, netUp,
                   clientStale, discPending, callerVars, errs>>
    /\ UNCHANGED <<chanVars, cacheVars, dbVars, wsVars, apiVars, reqVars>>

\* Ok(Incoming::Publish(p))
LoopPublish ==
    /\ loopPc = "poll"
    /\ \E r \in PollResults :
        /\ r.kind = "Publish"
        /\ polled' = r
        /\ bus' = EmitPublish(bus, r, ready)
    /\ UNCHANGED <<ready, subscriptions, backoff_secs, wait, loopPc, loopTodo,
                   loopIssued, netUp, clientStale, discPending, clientLock,
                   subsReaders, callerVars, errs>>
    /\ UNCHANGED <<chanVars, cacheVars, dbVars, wsVars, apiVars, reqVars>>

\* Ok(Incoming::PubAck(ack))
LoopPubAck ==
    /\ loopPc = "poll"
    /\ \E r \in PollResults :
        /\ r.kind = "PubAck"
        /\ polled' = r
        /\ bus' = Send(bus, PubAck(r.pkid))
    /\ UNCHANGED <<ready, subscriptions, backoff_secs, wait, loopPc, loopTodo,
                   loopIssued, netUp, clientStale, discPending, clientLock,
                   subsReaders, callerVars, errs>>
    /\ UNCHANGED <<chanVars, cacheVars, dbVars, wsVars, apiVars, reqVars>>

\* Ok(Outgoing::Disconnect): the queued Disconnect request went out
LoopOutDisconnect ==
    /\ loopPc = "poll"
    /\ PollOutDisconnect \in PollResults
    /\ polled' = PollOutDisconnect
    /\ discPending' = FALSE
    /\ ready' = FALSE
    /\ bus' = Send(bus, Disconnected("request"))
    /\ UNCHANGED <<subscriptions, backoff_secs, wait, loopPc, loopTodo,
                   loopIssued, netUp, clientStale, clientLock, subsReaders,
                   callerVars, errs>>
    /\ UNCHANGED <<chanVars, cacheVars, dbVars, wsVars, apiVars, reqVars>>

\* Ok(other): logged only
LoopOther ==
    /\ loopPc = "poll"
    /\ PollOther \in PollResults
    /\ polled' = PollOther
    /\ UNCHANGED <<ready, subscriptions, backoff_secs, wait, loopPc, loopTodo,
                   loopIssued, bus, netUp, clientStale, discPending,
                   clientLock, subsReaders, callerVars, errs>>
    /\ UNCHANGED <<chanVars, cacheVars, dbVars, wsVars, apiVars, reqVars>>

\* Err(e): not ready, Disconnected, then sleep(wait).await
LoopErr ==
    /\ loopPc = "poll"
    /\ PollErr \in PollResults
    /\ polled' = PollErr
    /\ netUp' = FALSE
    /\ errs' = errs + 1
    /\ ready' = FALSE
    /\ bus' = Send(bus, Disconnected("error"))
    /\ wait' = SleepFor(backoff_secs)
    /\ loopPc' = "sleep"
    /\ UNCHANGED <<subscriptions, backoff_secs, loopTodo, loopIssued,
                   clientStale, discPending, clientLock, subsReaders,
                   callerVars>>
    /\ UNCHANGED <<chanVars, cacheVars, dbVars, wsVars, apiVars, reqVars>>

\* the sleep is over: the backoff doubles, build_client returns a new client
\* and EventLoop, eventloop = new_eventloop drops the old EventLoop, and the
\* task awaits client_shared.lock()
LoopRebuildStep ==
    /\ loopPc = "sleep"
    /\ backoff_secs' = NextBackoff(backoff_secs)
    /\ netUp' = FALSE
    /\ discPending' = FALSE
    /\ clientStale' = TRUE
    /\ wait' = 0
    /\ loopPc' = "swap"
    /\ UNCHANGED <<ready, subscriptions, loopTodo, loopIssued, polled, bus,
                   clientLock, subsReaders, callerVars, errs>>
    /\ UNCHANGED <<chanVars, cacheVars, dbVars, wsVars, apiVars>>

\* the rebuild where no request is waiting in the channel
LoopRebuild == LoopRebuildStep /\ UNCHANGED reqVars

\* the lock is granted: *client_guard = new_client, guard dropped, continue
LoopSwap ==
    /\ loopPc = "swap"
    /\ clientLock = NoLock
    /\ clientStale' = FALSE
    /\ loopPc' = "poll"
    /\ UNCHANGED <<ready, subscriptions, backoff_secs, wait, loopTodo,
                   loopIssued, polled, bus, netUp, discPending, clientLock,
                   subsReaders, callerVars, errs>>
    /\ UNCHANGED <<chanVars, cacheVars, dbVars, wsVars, apiVars, reqVars>>

LoopStep ==
    \/ LoopConnAck \/ LoopReplayRead \/ LoopReplayLock \/ LoopReplayNext
    \/ LoopReplayDone \/ LoopPublish \/ LoopPubAck \/ LoopOutDisconnect
    \/ LoopOther \/ LoopErr \/ LoopRebuild \/ LoopSwap

(* ---------------------------------------------------------------------- *)
(* MqttService::subscribe                                                  *)
(* ---------------------------------------------------------------------- *)
\* a subscribe that tracks the topic whatever the result
ShouldTrack_Always(res) == TRUE

\* if result.is_ok() { ... subs.insert(topic, qos) }
ShouldTrack(res) == res = "ok"

\* self.client.lock().await is granted; client.subscribe(topic, qos) begins
SubscribeStart(c) ==
    /\ pc[c] = "idle"
    /\ clientLock = NoLock
    /\ \E t \in Topics, q \in QoSLevels :
        /\ cTopic' = [cTopic EXCEPT ![c] = t]
        /\ cQos' = [cQos EXCEPT ![c] = q]
    /\ clientLock' = c
    /\ pc' = [pc EXCEPT ![c] = "sub_call"]
    /\ UNCHANGED <<ready, subscriptions, loopVars, clientStale, discPending,
                   subsReaders, cTodo, cIssued, cResult, acked>>
    /\ UNCHANGED <<chanVars, cacheVars, dbVars, wsVars, apiVars, reqVars>>

\* client.subscribe(..).await returns; on Ok the task awaits
\* subscriptions.write() with the client guard still held, on Err it goes
\* to its return
SubscribeCallStep(c) ==
    /\ pc[c] = "sub_call"
    /\ \E res \in ClientCallResults :
        /\ cResult' = [cResult EXCEPT ![c] = res]
        /\ pc' = [pc EXCEPT ![c] =
                     IF ShouldTrack(res) THEN "sub_wwait" ELSE "sub_ret"]
    /\ UNCHANGED <<ready, subscriptions, loopVars, clientStale, discPending,
                   clientLock, subsReaders, cTopic, cQos, cTodo, cIssued,
                   acked>>
    /\ UNCHANGED <<chanVars, cacheVars, dbVars, wsVars, apiVars>>

\* the call where the request channel always has room
SubscribeCall(c) == SubscribeCallStep(c) /\ UNCHANGED reqVars

\* the write guard is granted (no read guard is live): insert, drop the
\* write guard
SubscribeTrack(c) ==
    /\ pc[c] = "sub_wwait"
    /\ subsReaders = {}
    /\ subscriptions' = Insert(subscriptions, cTopic[c], cQos[c])
    /\ pc' = [pc EXCEPT ![c] = "sub_ret"]
    /\ UNCHANGED <<ready, loopVars, clientStale, discPending, clientLock,
                   subsReaders, cTopic, cQos, cTodo, cIssued, cResult, acked>>
    /\ UNCHANGED <<chanVars, cacheVars, dbVars, wsVars, apiVars, reqVars>>

\* return result: the client guard is dropped
SubscribeReturn(c) ==
    /\ pc[c] = "sub_ret"
    /\ acked' = IF cResult[c] = "ok" THEN acked \cup {cTopic[c]} ELSE acked
    /\ clientLock' = NoLock
    /\ pc' = [pc EXCEPT ![c] = "idle"]
    /\ cTopic' = [cTopic EXCEPT ![c] = NoTopic]
    /\ cQos' = [cQos EXCEPT ![c] = 0]
    /\ cResult' = [cResult EXCEPT ![c] = "none"]
    /\ UNCHANGED <<ready, subscriptions, loopVars, clientStale, discPending,
                   subsReaders, cTodo, cIssued>>
    /\ UNCHANGED <<chanVars, cacheVars, dbVars, wsVars, apiVars, reqVars>>

(* ---------------------------------------------------------------------- *)
(* MqttService::resubscribe_tracked                                        *)
(* ---------------------------------------------------------------------- *)
\* a resubscribe that logs a failure and goes on
StopOnFailure_Never(res) == FALSE

\* if let Err(err) = client.subscribe(..).await { return Err(err) }
StopOnFailure(res) == res = "err"

\* self.subscriptions.read().await is granted; the task awaits the client lock
ResubStart(c) ==
    /\ pc[c] = "idle"
    /\ ~WriterWaiting
    /\ subsReaders' = subsReaders \cup {c}
    /\ pc' = [pc EXCEPT ![c] = "rs_lock"]
    /\ UNCHANGED <<ready, subscriptions, loopVars, clientStale, discPending,
                   clientLock, cTopic, cQos, cTodo, cIssued, cResult, acked>>
    /\ UNCHANGED <<chanVars, cacheVars, dbVars, wsVars, apiVars, reqVars>>

\* self.client.lock().await is granted; the iteration over subs begins
ResubLock(c) ==
    /\ pc[c] = "rs_lock"
    /\ clientLock = NoLock
    /\ clientLock' = c
    /\ cTodo' = [cTodo EXCEPT ![c] = DOMAIN subscriptions]
    /\ pc' = [pc EXCEPT ![c] = "rs_iter"]
    /\ UNCHANGED <<ready, subscriptions, loopVars, clientStale, discPending,
                   subsReaders, cTopic, cQos, cIssued, cResult, acked>>
    /\ UNCHANGED <<chanVars, cacheVars, dbVars, wsVars, apiVars, reqVars>>

\* one iteration: client.subscribe(topic, *qos).await; Err goes to the return
\* at once, Ok sleeps 50 ms and goes on with the next topic
ResubNext(c) ==
    /\ pc[c] = "rs_iter"
    /\ \E t \in cTodo[c], res \in ClientCallResults :
        /\ cIssued' = [cIssued EXCEPT ![c] =
               Append(@, [topic |-> t, qos |-> subscriptions[t], res |-> res])]
        /\ cTodo' = [cTodo EXCEPT ![c] = @ \ {t}]
        /\ IF StopOnFailure(res)
           THEN /\ cResult' = [cResult EXCEPT ![c] = "err"]
                /\ pc' = [pc EXCEPT ![c] = "rs_ret"]
           ELSE UNCHANGED <<cResult, pc>>
    /\ UNCHANGED <<ready, subscriptions, loopVars, clientStale, discPending,
                   clientLock, subsReaders, cTopic, cQos, acked>>
    /\ UNCHANGED <<chanVars, cacheVars, dbVars, wsVars, apiVars, reqVars>>

\* the iteration is over: Ok(())
ResubDone(c) ==
    /\ pc[c] = "rs_iter"
    /\ cTodo[c] = {}
    /\ cResult' = [cResult EXCEPT ![c] = "ok"]
    /\ pc' = [pc EXCEPT ![c] = "rs_ret"]
    /\ UNCHANGED <<ready, subscriptions, loopVars, clientStale, discPending,
                   clientLock, subsReaders, cTopic, cQos, cTodo, cIssued,
                   acked>>
    /\ UNCHANGED <<chanVars, cacheVars, dbVars, wsVars, apiVars, reqVars>>

\* return: the client guard and the read guard are dropped
ResubReturn(c) ==
    /\ pc[c] = "rs_ret"
    /\ clientLock' = NoLock
    /\ subsReaders' = subsReaders \ {c}
    /\ pc' = [pc EXCEPT ![c] = "idle"]
    /\ cTodo' = [cTodo EXCEPT ![c] = {}]
    /\ cIssued' = [cIssued EXCEPT ![c] = <<>>]
    /\ cResult' = [cResult EXCEPT ![c] = "none"]
    /\ UNCHANGED <<ready, subscriptions, loopVars, clientStale, discPending,
                   cTopic, cQos, acked>>
    /\ UNCHANGED <<chanVars, cacheVars, dbVars, wsVars, apiVars, reqVars>>

(* ---------------------------------------------------------------------- *)
(* MqttService::disconnect                                                 *)
(* ---------------------------------------------------------------------- *)
\* a disconnect that leaves the flag as it is
DisconnectReady_Kept(r) == r

\* the value disconnect() stores into ready before it awaits the lock
DisconnectReady(r) == FALSE

\* self.ready.store(false); the task awaits the client lock
DisconnectStart(c) ==
    /\ pc[c] = "idle"
    /\ ready' = DisconnectReady(ready)
    /\ pc' = [pc EXCEPT ![c] = "dc_lock"]
    /\ UNCHANGED <<subscriptions, loopVars, clientStale, discPending,
                   clientLock, subsReaders, cTopic, cQos, cTodo, cIssued,
                   cResult, acked>>
    /\ UNCHANGED <<chanVars, cacheVars, dbVars, wsVars, apiVars, reqVars>>

\* the lock is granted; client.disconnect().await queues the request for the
\* EventLoop of that client, or is refused; the guard is dropped on return
DisconnectCall(c) ==
    /\ pc[c] = "dc_lock"
    /\ clientLock = NoLock
    /\ \E res \in ClientCallResults :
        discPending' = (discPending \/ res = "ok")
    /\ pc' = [pc EXCEPT ![c] = "idle"]
    /\ UNCHANGED <<ready, subscriptions, loopVars, clientStale, clientLock,
                   subsReaders, cTopic, cQos, cTodo, cIssued, cResult, acked>>
    /\ UNCHANGED <<chanVars, cacheVars, dbVars, wsVars, apiVars, reqVars>>

(* ---------------------------------------------------------------------- *)
(* MqttService::publish                                                    *)
(* ---------------------------------------------------------------------- *)
\* topics callers publish to; the transport refuses a topic with a wildcard
PublishTopics == {"cmd", "cmd/#"}
WellFormedTopic(t) == t = "cmd"

\* result of client.publish(topic, ..).await: a malformed topic is refused;
\* otherwise the request is queued for the EventLoop of that client, which
\* takes it whether or not a session is up, unless that EventLoop is gone
PublishResult(t) ==
    IF ~WellFormedTopic(t) THEN "err"
    ELSE IF clientStale THEN "err"
    ELSE "ok"

\* self.client.lock().await is granted; client.publish(..) begins
PublishStart(c) ==
    /\ pc[c] = "idle"
    /\ clientLock = NoLock
    /\ \E t \in PublishTopics : cTopic' = [cTopic EXCEPT ![c] = t]
    /\ clientLock' = c
    /\ pc' = [pc EXCEPT ![c] = "pub_call"]
    /\ UNCHANGED <<ready, subscriptions, loopVars, clientStale, discPending,
                   subsReaders, cQos, cTodo, cIssued, cResult, acked>>
    /\ UNCHANGED <<chanVars, cacheVars, dbVars, wsVars, apiVars, reqVars>>

\* client.publish(..).await returns its result
PublishCallStep(c) ==
    /\ pc[c] = "pub_call"
    /\ cResult' = [cResult EXCEPT ![c] = PublishResult(cTopic[c])]
    /\ pc' = [pc EXCEPT ![c] = "pub_ret"]
    /\ UNCHANGED <<ready, subscriptions, loopVars, clientStale, discPending,
                   clientLock, subsReaders, cTopic, cQos, cTodo, cIssued,
                   acked>>
    /\ UNCHANGED <<chanVars, cacheVars, dbVars, wsVars, apiVars>>

\* the call where the request channel always has room
PublishCall(c) == PublishCallStep(c) /\ UNCHANGED reqVars

\* return: the client guard is dropped
PublishReturn(c) ==
    /\ pc[c] = "pub_ret"
    /\ clientLock' = NoLock
    /\ pc' = [pc EXCEPT ![c] = "idle"]
    /\ cTopic' = [cTopic EXCEPT ![c] = NoTopic]
    /\ cResult' = [cResult EXCEPT ![c] = "none"]
    /\ UNCHANGED <<ready, subscriptions, loopVars, clientStale, discPending,
                   subsReaders, cQos, cTodo, cIssued, acked>>
    /\ UNCHANGED <<chanVars, cacheVars, dbVars, wsVars, apiVars, reqVars>>

CallerStep(c) ==
    \/ PublishStart(c) \/ PublishCall(c) \/ PublishReturn(c)
    \/ SubscribeStart(c) \/ SubscribeCall(c) \/ SubscribeTrack(c)
    \/ SubscribeReturn(c)
    \/ ResubStart(c) \/ ResubLock(c) \/ ResubNext(c) \/ ResubDone(c)
    \/ ResubReturn(c)
    \/ DisconnectStart(c) \/ DisconnectCall(c)

Next == LoopStep \/ \E c \in Callers : CallerStep(c)

Spec == Init /\ [][Next]_vars

TypeOK ==
    /\ ready \in BOOLEAN
    /\ DOMAIN subscriptions \subseteq Topics
    /\ \A t \in DOMAIN subscriptions : subscriptions[t] \in QoSLevels
    /\ backoff_secs \in 1..BackoffCeiling
    /\ loopPc \in {"poll", "replay_read", "replay_lock", "replay", "sleep", "swap"}
    /\ clientLock \in Callers \cup {NoLock, LoopTask}
    /\ subsReaders \subseteq Callers \cup {LoopTask}
    /\ Len(bus) <= BusWindow
    /\ errs \in 0..MaxErrs
    /\ Len(seen) <= MaxEvents
    /\ now \in 1..(MaxEvents + MaxSessions + 1)
    /\ session_seq \in 0..MaxSessions
    /\ Len(roast_sessions) <= MaxSessions
    /\ dbFail \subseteq {"telemetry", "session_telemetry", "autotune_status",
                         "autotune_results"}
    /\ ws_clients \in {0, 1}
    /\ ws_state \in {"idle", "recv", "ended", "panicked"}
    /\ Len(ws_in) <= MaxEvents
    /\ Len(ws_out) <= Len(ws_in)
    /\ pings \in 0..MaxPings /\ pongs \in 0..pings
    /\ ackPc \in {"idle", "publish", "wait", "done"}
    /\ ackWait \in BOOLEAN
    /\ ackResp \in {0, 204, 502, 504}
    /\ apiCall = <<>> \/ apiCall \in ApiNames \X (1..MaxSessions)
    /\ apiResp \in {0, 200, 404}
    /\ Len(requests) <= ReqCapacity
    /\ \A i \in DOMAIN requests :
          \/ requests[i].kind = "subscribe"
          \/ requests[i].kind = "publish" /\ requests[i].id \in 1..reqSeq
    /\ reqSeq \in 0..MaxReqs
    /\ accepted \subseteq 1..reqSeq
    /\ handed \subseteq accepted
    /\ discarded \subseteq accepted
    /\ mqtt_connected \in {0, 1}
    /\ mqtt_rx_total \in 0..MaxEvents
    /\ DOMAIN telemetry_cache \subseteq Devices
    /\ DOMAIN device_registry \subseteq Devices
    /\ Len(chanLog) <= MaxSent
    /\ lastSend \in {"none", "ok", "err"}
    /\ \A r \in Receivers :
          /\ rxState[r] \in {"none", "open", "closed"}
          /\ rxKind[r] \in {"none", "bridge", "consumer", "handler"}
          /\ rxNext[r] \in 0..(MaxSent + 1)
          /\ rxLost[r] \in 0..MaxSent

(* ---------------------------------------------------------------------- *)
(* Event Bus: the tokio broadcast channel behind events_tx, the handles    *)
(* MqttService::events() returns, and the tasks that read them: a          *)
(* WebSocket bridge (telemetry_ws_loop) leaves its loop on the first       *)
(* recv() error, the cache consumer (mqtt_consumer_loop) goes on.          *)
(* ---------------------------------------------------------------------- *)
\* events run_eventloop sends
BusEvents == {Connected} \cup {Publish(m[1], m[2]) : m \in Messages}

RxKinds == {"bridge", "consumer"}

OpenReceivers == {r \in Receivers : rxState[r] = "open"}

\* position of the oldest event the channel still retains
Oldest(log) == IF Len(log) > BusCapacity THEN Len(log) - BusCapacity + 1 ELSE 1

\* a bounded queue, whose sender waits while some receiver's queue is full
SendWaits_BoundedQueue ==
    \E r \in OpenReceivers : Len(chanLog) + 1 - rxNext[r] >= BusCapacity

\* broadcast::Sender::send is synchronous: it never waits for a receiver
SendWaits == FALSE

\* events_tx.send(e) from an arm of run_eventloop: with no receiver handle
\* alive the event is not stored and Err comes back, which `let _ =` drops;
\* otherwise the event is stored and the oldest retained one is given up
LoopEmit(e) ==
    /\ Len(chanLog) < MaxSent
    /\ ~SendWaits
    /\ bus' = Send(bus, e)
    /\ IF OpenReceivers = {}
       THEN /\ lastSend' = "err"
            /\ UNCHANGED chanLog
       ELSE /\ lastSend' = "ok"
            /\ chanLog' = Append(chanLog, e)
    /\ UNCHANGED <<ready, subscriptions, backoff_secs, wait, loopPc, loopTodo,
                   loopIssued, polled, netUp, clientStale, discPending,
                   clientLock, subsReaders, callerVars, errs>>
    /\ UNCHANGED <<rxState, rxKind, rxNext, rxFrom, rxGot, rxLost, cacheVars,
                   dbVars, wsVars, apiVars, reqVars>>

\* a new handle that replays what the channel retains
SubscribeCursor_Replay(log) == Oldest(log)

\* events_tx.subscribe(): the new handle starts behind the latest stored event
SubscribeCursor(log) == Len(log) + 1

\* MqttService::events() called by a task of kind k
RxSubscribe(r, k) ==
    /\ rxState[r] = "none"
    /\ rxState' = [rxState EXCEPT ![r] = "open"]
    /\ rxKind' = [rxKind EXCEPT ![r] = k]
    /\ rxNext' = [rxNext EXCEPT ![r] = SubscribeCursor(chanLog)]
    /\ rxFrom' = [rxFrom EXCEPT ![r] = Len(chanLog)]
    /\ UNCHANGED <<connVars, reqVars, cacheVars, dbVars, wsVars, apiVars, chanLog, lastSend, rxGot, rxLost>>

\* a recv that hands out an event without moving on
RecvAdvance_Stuck(n) == n

\* Receiver::recv returned the event at n: the next one is n + 1
RecvAdvance(n) == n + 1

\* one queue shared by all handles: an event taken by one is gone for all
CursorsAfterRecv_Shared(nexts, r, n) ==
    [q \in Receivers |-> IF q = r \/ nexts[q] < n THEN n ELSE nexts[q]]

\* every handle has its own cursor
CursorsAfterRecv(nexts, r, n) == [nexts EXCEPT ![r] = n]

\* a bridge that goes on reading after a Lagged error
AfterLag_GoOn(k) == "open"

\* a consumer that leaves its loop on a Lagged error as the bridges do
AfterLag_AllEnd(k) == "closed"

\* telemetry_ws_loop: `while let Ok(evt) = rx.recv().await` ends on Lagged
\* and the handle is dropped; mqtt_consumer_loop: `Err(_) => {}` goes on
AfterLag(k) == IF k = "bridge" THEN "closed" ELSE "open"

\* rx.recv().await returns: Ok(event) when the event at the cursor is still
\* retained, Err(Lagged(n)) when it is not, and then the cursor moves to the
\* oldest retained event
RxRecv(r) ==
    /\ rxState[r] = "open"
    /\ rxNext[r] <= Len(chanLog)
    /\ IF rxNext[r] < Oldest(chanLog)
       THEN /\ rxLost' = [rxLost EXCEPT ![r] = @ + Oldest(chanLog) - rxNext[r]]
            /\ rxNext' = CursorsAfterRecv(rxNext, r, Oldest(chanLog))
            /\ rxState' = [rxState EXCEPT ![r] = AfterLag(rxKind[r])]
            /\ UNCHANGED rxGot
       ELSE /\ rxGot' = [rxGot EXCEPT ![r] =
                   Append(@, [pos |-> rxNext[r], evt |-> chanLog[rxNext[r]]])]
            /\ rxNext' = CursorsAfterRecv(rxNext, r, RecvAdvance(rxNext[r]))
            /\ UNCHANGED <<rxLost, rxState>>
    /\ UNCHANGED <<connVars, reqVars, cacheVars, dbVars, wsVars, apiVars, chanLog, lastSend, rxKind, rxFrom>>

\* a failure that takes down every bridge
StateAfterClose_All(states, r) ==
    [q \in Receivers |-> IF rxKind[q] = "bridge" /\ states[q] = "open"
                         THEN "closed" ELSE states[q]]

\* break leaves the loop of this bridge and drops its handle
StateAfterClose(states, r) == [states EXCEPT ![r] = "closed"]

\* the socket of a bridge is gone (send failed or the client closed): the
\* bridge leaves its loop and its handle is dropped
BridgeClose(r) ==
    /\ rxState[r] = "open"
    /\ rxKind[r] = "bridge"
    /\ rxState' = StateAfterClose(rxState, r)
    /\ UNCHANGED <<connVars, reqVars, cacheVars, dbVars, wsVars, apiVars, chanLog, lastSend, rxKind, rxNext,
                   rxFrom, rxGot, rxLost>>

NextBus ==
    \/ \E e \in BusEvents : LoopEmit(e)
    \/ \E r \in Receivers :
          \/ \E k \in RxKinds : RxSubscribe(r, k)
          \/ RxRecv(r)
          \/ BridgeClose(r)

SpecBus == Init /\ [][NextBus]_vars

(* ---------------------------------------------------------------------- *)
(* Cache consumer: mqtt_consumer_loop handles one received event per step. *)
(* A topic is the sequence of its segments, what topic.split('/') yields;  *)
(* a payload is its text, and decoding it is a lookup that can fail.       *)
(* ---------------------------------------------------------------------- *)
\* rustroast_core::ROOT
ROOT == "roaster"

\* Option values: None and Some(v)
None == <<>>
Some(v) == <<v>>

\* topics the catch-all subscription roaster/# and the broker can deliver
TopicsOf(d) ==
    { <<ROOT, d, "telemetry">>,
      <<ROOT, d, "status">>,
      <<ROOT, d, "autotune", "status">>,
      <<ROOT, d, "autotune", "results">>,
      <<ROOT, d, "autotune", "start">>,
      <<ROOT, d, "autotune">>,
      <<ROOT, d, "telemetry", "extra">>,
      <<"other", d, "telemetry">>,
      <<ROOT, d>> }

ConsumerTopics == UNION {TopicsOf(d) : d \in Devices}

\* JSON scalars
Str(x) == <<"str", x>>
Num(n) == <<"num", n>>

\* payload texts that are JSON documents
JsonTexts == {"{id:a,ip:i,version:v,rssi:-50,ts:9}", "{id:7,version:w,ts:5}"}

\* a JSON document of the size of a full telemetry report
LongJson ==
    "{beanTemp:201,envTemp:180,rateOfRise:12,heaterPWM:80,fanPWM:200,setpoint:210,controlMode:1,ts:9}"

\* a text of that size that is not JSON
LongRaw ==
    "BT=201 ET=180 ROR=12 heater=80 fan=200 setpoint=210 mode=auto uptime=123456"

\* payload texts
Payloads == JsonTexts \cup {"not json"}

\* the serde_json::Value of a JSON text
JsonOf(p) ==
    IF p = LongJson
    THEN [beanTemp |-> Num(201), envTemp |-> Num(180), rateOfRise |-> Num(12),
          heaterPWM |-> Num(80), fanPWM |-> Num(200), setpoint |-> Num(210),
          controlMode |-> Num(1), ts |-> Num(9)]
    ELSE IF p = "{id:a,ip:i,version:v,rssi:-50,ts:9}"
    THEN [id |-> Str("a"), ip |-> Str("i"), version |-> Str("v"),
          rssi |-> Num(0 - 50), ts |-> Num(9)]
    ELSE [id |-> Num(7), version |-> Str("w"), ts |-> Num(5)]

\* a decoder that wraps what it cannot parse into a raw string value
from_slice_RawFallback(p) ==
    IF p \in JsonTexts \cup {LongJson} THEN Some(JsonOf(p))
    ELSE Some([raw |-> Str(p)])

\* serde_json::from_slice::<serde_json::Value>(&payload), Err as None
from_slice(p) ==
    IF p \in JsonTexts \cup {LongJson} THEN Some(JsonOf(p)) ELSE None

\* val.get(key).and_then(|v| v.as_str())
GetStr(val, key) ==
    IF key \in DOMAIN val /\ val[key][1] = "str" THEN Some(val[key][2]) ELSE None

\* val.get(key).and_then(|v| v.as_i64())
GetI64(val, key) ==
    IF key \in DOMAIN val /\ val[key][1] = "num" THEN Some(val[key][2]) ELSE None

\* parse_roaster_topic: the first three segments, the first being ROOT
parse_roaster_topic(topic) ==
    IF topic[1] # ROOT THEN None
    ELSE IF Len(topic) < 2 THEN None
    ELSE IF Len(topic) < 3 THEN None
    ELSE Some([device |-> topic[2], kind |-> topic[3]])

\* statements that are given up once one statement has failed
InsertRows_StopAfterFailure(name, tbl, rows) ==
    IF dbFail # {} THEN tbl ELSE tbl \o rows

\* sqlx::query(..).execute(&db).await on a table: the rows are added unless
\* the statement fails, and `let _ =` drops the error
InsertRows(name, tbl, rows) == IF name \in dbFail THEN tbl ELSE tbl \o rows

\* SELECT .. FROM roast_sessions s WHERE s.device_id = ? AND s.status = 'active'
ActiveSessions(d) ==
    LET Test(r) == r.device_id = d /\ r.status = "active"
    IN  SelectSeq(roast_sessions, Test)

\* the rows INSERT INTO session_telemetry .. SELECT adds
SessionRows(d, ts, p) ==
    [i \in DOMAIN ActiveSessions(d) |->
        [session_id |-> ActiveSessions(d)[i].id, timestamp |-> ts,
         payload |-> p]]

\* the timestamp a payload carries, 0 when it carries none
EmbeddedTs(val) == IF "ts" \in DOMAIN val THEN val["ts"][2] ELSE 0

\* an insert that keeps the entry whose payload carries the later timestamp
CacheInsert_NewestEmbedded(cache, d, val, ts) ==
    IF d \in DOMAIN cache /\ EmbeddedTs(cache[d].val) > EmbeddedTs(val)
    THEN cache
    ELSE (d :> [val |-> val, ts |-> ts]) @@ cache

\* cache.write().await.insert(device_id, (val, now))
CacheInsert(cache, d, val, ts) == (d :> [val |-> val, ts |-> ts]) @@ cache

\* reg.entry(device_id).or_insert(DeviceInfo { .. })
EntryOrInsert(reg, d, ts) ==
    IF d \in DOMAIN reg THEN reg[d]
    ELSE [device_id |-> d, last_seen |-> ts, id |-> None, ip |-> None,
          version |-> None, rssi |-> None, status_raw |-> None]

\* the status branch: every field is assigned from the new message
StatusEntry(reg, d, val, ts) ==
    [EntryOrInsert(reg, d, ts) EXCEPT
        !.last_seen = ts,
        !.status_raw = Some(val),
        !.id = GetStr(val, "id"),
        !.ip = GetStr(val, "ip"),
        !.version = GetStr(val, "version"),
        !.rssi = GetI64(val, "rssi")]

\* kind == "telemetry"
TelemetryArm(d, p, ts) ==
    LET val == from_slice(p) IN
    IF val # None
    THEN /\ telemetry_last_seen' = (d :> ts) @@ telemetry_last_seen
         /\ telemetry_cache' = CacheInsert(telemetry_cache, d, val[1], ts)
         /\ telemetry_tbl' =
               InsertRows("telemetry", telemetry_tbl,
                          <<[device_id |-> d, ts |-> ts, payload |-> p]>>)
         /\ session_telemetry_tbl' =
               InsertRows("session_telemetry", session_telemetry_tbl,
                          SessionRows(d, ts, p))
         /\ UNCHANGED <<autotune_status_cache, autotune_results_cache,
                        device_registry, autotune_status_tbl,
                        autotune_results_tbl, status_last_seen>>
    ELSE UNCHANGED <<storeVars, telemetry_last_seen, status_last_seen>>

\* kind == "status"
StatusArm(d, p, ts) ==
    LET val == from_slice(p) IN
    IF val # None
    THEN /\ status_last_seen' = (d :> ts) @@ status_last_seen
         /\ device_registry' =
               (d :> StatusEntry(device_registry, d, val[1], ts)) @@ device_registry
         /\ UNCHANGED <<telemetry_cache, autotune_status_cache,
                        autotune_results_cache, telemetry_tbl,
                        autotune_status_tbl, autotune_results_tbl,
                        session_telemetry_tbl, telemetry_last_seen>>
    ELSE UNCHANGED <<storeVars, telemetry_last_seen, status_last_seen>>

\* kind == "autotune": the fourth segment selects the cache
AutotuneArm(topic, d, p, ts) ==
    LET val == from_slice(p) IN
    /\ UNCHANGED <<telemetry_last_seen, status_last_seen>>
    /\ IF Len(topic) >= 4 /\ val # None /\ topic[4] = "status"
       THEN /\ autotune_status_cache' =
                  CacheInsert(autotune_status_cache, d, val[1], ts)
            /\ autotune_status_tbl' =
                  InsertRows("autotune_status", autotune_status_tbl,
                             <<[device_id |-> d, ts |-> ts, payload |-> p]>>)
            /\ UNCHANGED <<telemetry_cache, autotune_results_cache,
                           device_registry, telemetry_tbl,
                           autotune_results_tbl, session_telemetry_tbl>>
       ELSE IF Len(topic) >= 4 /\ val # None /\ topic[4] = "results"
       THEN /\ autotune_results_cache' =
                  CacheInsert(autotune_results_cache, d, val[1], ts)
            /\ autotune_results_tbl' =
                  InsertRows("autotune_results", autotune_results_tbl,
                             <<[device_id |-> d, ts |-> ts, payload |-> p]>>)
            /\ UNCHANGED <<telemetry_cache, autotune_status_cache,
                           device_registry, telemetry_tbl,
                           autotune_status_tbl, session_telemetry_tbl>>
       ELSE UNCHANGED storeVars

\* Ok(MqttEvent::Publish { topic, payload }); epoch_secs() is called once
\* the topic has parsed and returns ts
ConsumePublish(topic, p, ts) ==
    /\ Len(seen) < MaxEvents
    /\ parse_roaster_topic(topic) = None => ts = now
    /\ seen' = Append(seen, [evt |-> Publish(topic, p), at |-> ts])
    /\ now' = ts
    /\ mqtt_rx_total' = mqtt_rx_total + 1
    /\ UNCHANGED mqtt_connected
    /\ LET parsed == parse_roaster_topic(topic) IN
       IF parsed = None
       THEN UNCHANGED <<storeVars, telemetry_last_seen, status_last_seen>>
       ELSE IF parsed[1].kind = "telemetry"
       THEN TelemetryArm(parsed[1].device, p, ts)
       ELSE IF parsed[1].kind = "status"
       THEN StatusArm(parsed[1].device, p, ts)
       ELSE IF parsed[1].kind = "autotune"
       THEN AutotuneArm(topic, parsed[1].device, p, ts)
       ELSE UNCHANGED <<storeVars, telemetry_last_seen, status_last_seen>>
    /\ UNCHANGED <<connVars, reqVars, chanVars, dbVars, wsVars, apiVars, reqVars>>

\* Ok(MqttEvent::Connected) and Ok(MqttEvent::Disconnected) set the gauge
ConsumeConnection(up) ==
    /\ Len(seen) < MaxEvents
    /\ seen' = Append(seen, [evt |-> IF up THEN Connected
                                          ELSE Disconnected("error"),
                             at |-> now])
    /\ mqtt_connected' = IF up THEN 1 ELSE 0
    /\ UNCHANGED <<storeVars, now, mqtt_rx_total, telemetry_last_seen,
                   status_last_seen>>
    /\ UNCHANGED <<connVars, reqVars, chanVars, dbVars, wsVars, apiVars, reqVars>>

\* Ok(MqttEvent::PubAck(_)) and Err(_), also Lagged, change nothing
ConsumeIgnored(e) ==
    /\ Len(seen) < MaxEvents
    /\ seen' = Append(seen, [evt |-> e, at |-> now])
    /\ UNCHANGED <<storeVars, metricVars, now>>
    /\ UNCHANGED <<connVars, reqVars, chanVars, dbVars, wsVars, apiVars, reqVars>>

Lagged == [type |-> "Lagged"]

NextCache ==
    \/ \E topic \in ConsumerTopics, p \in Payloads, ts \in {now, now + 1} :
          ConsumePublish(topic, p, ts)
    \/ \E up \in BOOLEAN : ConsumeConnection(up)
    \/ \E e \in {PubAck(id) : id \in PacketIds} \cup {Lagged} : ConsumeIgnored(e)

SpecCache == Init /\ [][NextCache]_vars

(* ---------------------------------------------------------------------- *)
(* Roast sessions: RoastSessionService works on table roast_sessions, one  *)
(* SQL statement per call; the consumer reads the table when telemetry     *)
(* arrives.                                                                 *)
(* ---------------------------------------------------------------------- *)
\* SessionStatus, as its Display impl writes it
SessionStatus ==
    {"planning", "active", "paused", "completed", "failed", "cancelled"}

\* values of the notes column an update request carries
Notes == {"x", "y"}

SessionIds == 1..MaxSessions

\* the rows a WHERE id = ? selects
RowsWithId(id) == {i \in DOMAIN roast_sessions : roast_sessions[i].id = id}

\* UPDATE roast_sessions SET .. WHERE id = ? AND status IN from RETURNING *
\* where set holds the columns of the SET clause
UpdateWhere(id, from, set) ==
    [i \in DOMAIN roast_sessions |->
        IF roast_sessions[i].id = id /\ roast_sessions[i].status \in from
        THEN set @@ roast_sessions[i]
        ELSE roast_sessions[i]]

\* a statement that matches on the id alone
Matches_IdOnly(id, from) == RowsWithId(id) # {}

\* the call has a row to update, so that it returns Some(session)
Matches(id, from) ==
    \E i \in RowsWithId(id) : roast_sessions[i].status \in from

\* create_session: a new row in status Planning with no start time
create_session(d) ==
    /\ session_seq < MaxSessions
    /\ session_seq' = session_seq + 1
    /\ roast_sessions' =
          Append(roast_sessions,
                 [id |-> session_seq + 1, device_id |-> d,
                  status |-> "planning", start_time |-> None,
                  end_time |-> None, notes |-> None])
    /\ UNCHANGED <<connVars, reqVars, chanVars, wsVars, apiVars, cacheVars, dbFail>>

\* a start that takes the session whatever its status
StartFrom_Any == SessionStatus

\* start_session: WHERE id = ? AND status = 'planning'
StartFrom == {"planning"}

\* a start that sets the status only
StartColumns_StatusOnly(t) == [status |-> "active"]

\* start_session: SET status = 'active', start_time = Utc::now()
StartColumns(t) == [status |-> "active", start_time |-> Some(t)]

\* start_session: status Active and start_time = Utc::now()
start_session(id) ==
    /\ Matches(id, StartFrom)
    /\ now' = now + 1
    /\ roast_sessions' = UpdateWhere(id, StartFrom, StartColumns(now + 1))
    /\ UNCHANGED <<connVars, reqVars, chanVars, wsVars, apiVars, storeVars, metricVars, seen, session_seq,
                   dbFail>>

\* pause_session: WHERE id = ? AND status = 'active'
pause_session(id) ==
    /\ Matches(id, {"active"})
    /\ roast_sessions' =
          UpdateWhere(id, {"active"},
                      [status |-> "paused"])
    /\ UNCHANGED <<connVars, reqVars, chanVars, wsVars, apiVars, cacheVars, session_seq, dbFail>>

\* resume_session: WHERE id = ? AND status = 'paused'
resume_session(id) ==
    /\ Matches(id, {"paused"})
    /\ roast_sessions' =
          UpdateWhere(id, {"paused"},
                      [status |-> "active"])
    /\ UNCHANGED <<connVars, reqVars, chanVars, wsVars, apiVars, cacheVars, session_seq, dbFail>>

\* complete_session: WHERE id = ? AND status IN ('active', 'paused'); the
\* summary columns it also sets are not part of the row here
complete_session(id) ==
    /\ Matches(id, {"active", "paused"})
    /\ roast_sessions' =
          UpdateWhere(id, {"active", "paused"},
                      [status |-> "completed", end_time |-> Some(now)])
    /\ UNCHANGED <<connVars, reqVars, chanVars, wsVars, apiVars, cacheVars, session_seq, dbFail>>

\* update_session with a notes field: WHERE id = ?, the status is not set
update_session(id, n) ==
    /\ Matches(id, SessionStatus)
    /\ \E i \in RowsWithId(id) : roast_sessions[i].notes # Some(n)
    /\ roast_sessions' =
          UpdateWhere(id, SessionStatus,
                      [notes |-> Some(n)])
    /\ UNCHANGED <<connVars, reqVars, chanVars, wsVars, apiVars, cacheVars, session_seq, dbFail>>

\* delete_session: DELETE FROM roast_sessions WHERE id = ?
delete_session(id) ==
    /\ RowsWithId(id) # {}
    /\ LET Keep(r) == r.id # id
       IN  roast_sessions' = SelectSeq(roast_sessions, Keep)
    /\ UNCHANGED <<connVars, reqVars, chanVars, wsVars, apiVars, cacheVars, session_seq, dbFail>>

\* get_active_session: status IN ('active', 'paused') ORDER BY start_time
\* DESC LIMIT 1, as the set of the ids it returns (empty for None)
get_active_session(d) ==
    LET live == {i \in DOMAIN roast_sessions :
                    /\ roast_sessions[i].device_id = d
                    /\ roast_sessions[i].status \in {"active", "paused"}}
    IN  {roast_sessions[i].id : i \in
            {i \in live : \A j \in live :
                roast_sessions[j].start_time[1] <= roast_sessions[i].start_time[1]}}

\* tables the telemetry branch of the consumer writes
PersistTables == {"telemetry", "session_telemetry"}

\* statements on the tables in S start to fail, the others work again
DbFault(S) ==
    /\ S # dbFail
    /\ dbFail' = S
    /\ UNCHANGED <<connVars, reqVars, chanVars, wsVars, apiVars, cacheVars, roast_sessions, session_seq>>

\* the telemetry that arrives while sessions come and go: decodable, of one
\* device, while sessions exist for both devices
PersistPayloads == {"{id:a,ip:i,version:v,rssi:-50,ts:9}"}
PersistDevices == {"d1"}

\* the calls of the session API
NextSession ==
    \/ \E d \in Devices : create_session(d)
    \/ \E id \in SessionIds :
          \/ start_session(id)
          \/ pause_session(id)
          \/ resume_session(id)
          \/ complete_session(id)
          \/ delete_session(id)
          \/ \E n \in Notes : update_session(id, n)

SpecSession == Init /\ [][NextSession]_vars

\* telemetry arriving while sessions are created, started, paused, resumed
\* and completed and while the database fails and recovers
NextPersist ==
    \/ \E d \in Devices : create_session(d)
    \/ \E id \in SessionIds :
          \/ start_session(id)
          \/ pause_session(id)
          \/ resume_session(id)
          \/ complete_session(id)
    \/ \E S \in SUBSET PersistTables : DbFault(S)
    \/ \E d \in PersistDevices, p \in PersistPayloads :
          ConsumePublish(<<ROOT, d, "telemetry">>, p, now)

SpecPersist == Init /\ [][NextPersist]_vars

(* ---------------------------------------------------------------------- *)
(* Scheduling: a task that can run does run; the tokio Mutex and RwLock    *)
(* grant waiters in FIFO order, so a waiter whose lock is free again and   *)
(* again is served.  Nothing obliges the broker to answer or a caller to   *)
(* start a call.                                                           *)
(* ---------------------------------------------------------------------- *)
Fairness ==
    /\ SF_vars(LoopReplayRead)
    /\ SF_vars(LoopReplayLock)
    /\ WF_vars(LoopReplayNext)
    /\ WF_vars(LoopReplayDone)
    /\ WF_vars(LoopRebuild)
    /\ SF_vars(LoopSwap)
    /\ \A c \in Callers :
        /\ WF_vars(SubscribeCall(c))
        /\ SF_vars(SubscribeTrack(c))
        /\ WF_vars(SubscribeReturn(c))
        /\ SF_vars(ResubLock(c))
        /\ WF_vars(ResubNext(c))
        /\ WF_vars(ResubDone(c))
        /\ WF_vars(ResubReturn(c))
        /\ SF_vars(DisconnectCall(c))
        /\ WF_vars(PublishCall(c))
        /\ WF_vars(PublishReturn(c))

FairSpec == Init /\ [][Next]_vars /\ Fairness

(* ---------------------------------------------------------------------- *)
(* Properties                                                              *)
(* ---------------------------------------------------------------------- *)
Range(f) == {f[i] : i \in DOMAIN f}
Last(q) == q[Len(q)]

\* C1: the tracked-subscription set never loses a topic: no step of any
\* operation removes a key, the steps of the reconnect loop (transport
\* error, rebuild, reconnect, replay), of resubscribe_tracked and of
\* disconnect leave the set as it is, and every topic for which subscribe()
\* returned Ok is in the set.
C1_TrackedNeverLost ==
    /\ [](acked \subseteq DOMAIN subscriptions)
    /\ [][/\ DOMAIN subscriptions \subseteq DOMAIN subscriptions'
          /\ loopVars' # loopVars => subscriptions' = subscriptions
          /\ (\E c \in Callers : pc[c] \in {"rs_lock", "rs_iter", "rs_ret",
                                             "dc_lock"} /\ pc'[c] # pc[c])
                => subscriptions' = subscriptions]_vars

\* after two transport errors and a reconnect both topics are still tracked
C1_Witness ==
    /\ loopPc = "replay"
    /\ backoff_secs > 2
    /\ acked = Topics
    /\ DOMAIN subscriptions = Topics

\* C2: in the replay that follows a broker acknowledgment the loop issues one
\* subscribe call per tracked topic, none twice and none for an untracked
\* topic, each with the tracked QoS and on the client of the polled
\* EventLoop; when the iteration ends exactly N calls have been issued.
C2_ReplayIssuesEachTrackedOnce ==
    loopPc = "replay" =>
        /\ {r.topic : r \in Range(loopIssued)} \cup loopTodo
               = DOMAIN subscriptions
        /\ Len(loopIssued) + Cardinality(loopTodo)
               = Cardinality(DOMAIN subscriptions)
        /\ \A r \in Range(loopIssued) :
               r.qos = subscriptions[r.topic] /\ ~r.stale

\* a replay after a transport failure has issued the calls for two topics
\* tracked at different QoS
C2_Witness ==
    /\ loopPc = "replay"
    /\ loopTodo = {}
    /\ backoff_secs > 1
    /\ Len(loopIssued) = 2
    /\ \E r \in Range(loopIssued) : r.qos = 1
    /\ \E r \in Range(loopIssued) : r.qos = 0

\* topics for which the current replay has issued its subscribe call
ReplayIssuedTopics(is) == {is[i].topic : i \in DOMAIN is}

\* C33: a failed subscribe call in the replay after a broker acknowledgment
\* does not stop the replay: the failing step leaves the loop in the replay
\* with the ready flag, the tracked set and the backoff untouched and every
\* tracked topic still issued or to come, and the replay ends with a call
\* issued for every tracked topic, the tracked set unchanged, the backoff at 1
\* and the loop back at poll.
C33_FailedSubscribeDoesNotStopReplay ==
    [][ /\ ( /\ loopPc = "replay"
            /\ Len(loopIssued') = Len(loopIssued) + 1
            /\ loopIssued'[Len(loopIssued')].res = "err" )
           => /\ loopPc' = "replay"
              /\ UNCHANGED <<ready, subscriptions, backoff_secs>>
              /\ ReplayIssuedTopics(loopIssued') \cup loopTodo'
                     = DOMAIN subscriptions
        /\ (loopPc = "replay" /\ loopPc' # "replay")
           => /\ loopPc' = "poll"
              /\ ReplayIssuedTopics(loopIssued) = DOMAIN subscriptions
              /\ UNCHANGED <<ready, subscriptions>>
              /\ backoff_secs' = 1 ]_vars

\* a replay of two tracked topics is over: the first call failed and the call
\* for the other topic was issued after it
C33_Witness ==
    /\ loopPc = "replay"
    /\ loopTodo = {}
    /\ Len(loopIssued) = 2
    /\ loopIssued[1].res = "err"
    /\ loopIssued[2].topic # loopIssued[1].topic
    /\ ready
    /\ ENABLED LoopReplayDone

\* topics the replay of the current connection has still to re-issue
PendingReplay ==
    IF loopPc \in {"replay_read", "replay_lock"} THEN DOMAIN subscriptions
    ELSE IF loopPc = "replay" THEN loopTodo
    ELSE {}

\* C3: on a broker acknowledgment the loop marks ready, resets the backoff,
\* re-issues the tracked subscriptions and then emits Connected: when
\* Connected is the latest event, no tracked subscription is still to be
\* re-issued, and the backoff is at its floor while the replay runs.
C3_ConnectedAfterReplay ==
    /\ (bus # <<>> /\ Last(bus) = Connected) => PendingReplay = {}
    /\ loopPc \in {"replay_read", "replay_lock", "replay"}
           => backoff_secs = BackoffFloor

RECURSIVE BackoffAt(_)
\* b_1 = 1, b_{k+1} = min(2 * b_k, 60)
BackoffAt(k) == IF k <= 1 THEN 1 ELSE Min(2 * BackoffAt(k - 1), 60)

\* C4: the k-th consecutive transport error sleeps min(b_k, 30) seconds with
\* b_1 = 1 and b_{k+1} = min(2 * b_k, 60); the backoff stays within 1..60, no
\* sleep exceeds 30 seconds, and after the handling of a broker
\* acknowledgment the backoff is 1.
C4_BackoffSchedule ==
    /\ backoff_secs \in 1..60
    /\ wait <= 30
    /\ loopPc = "sleep" =>
           /\ backoff_secs = BackoffAt(errs)
           /\ wait = Min(BackoffAt(errs), 30)
    /\ loopPc = "swap" => backoff_secs = BackoffAt(errs + 1)
    /\ (loopPc = "poll" /\ netUp) => backoff_secs = 1

\* the seventh consecutive error sleeps the capped 30 seconds at backoff 60
C4_Witness ==
    /\ loopPc = "sleep"
    /\ errs = 7
    /\ backoff_secs = 60
    /\ wait = 30

\* C5: after every transport error the loop sleeps, rebuilds the client and
\* polls the new transport again.
C5_EventuallyPollsAgain == (loopPc = "sleep") ~> (loopPc = "poll")

\* C6: after a Disconnected event sent for a transport error, the next event
\* on the stream is Connected or again a Disconnected for a transport error,
\* so every event before the next Connected is a Disconnected.
C6_OnlyDisconnectedWhileDown ==
    [][(bus # <<>> /\ Last(bus) = Disconnected("error"))
          => Last(bus') \in {Connected, Disconnected("error")}]_vars

\* a second consecutive transport error has sent a further Disconnected
C6_Witness ==
    /\ bus # <<>>
    /\ Last(bus) = Disconnected("error")
    /\ errs >= 2
    /\ loopPc = "poll"

\* a step in which eventloop.poll() returns an incoming Publish
PollReturnsPublish ==
    /\ loopPc = "poll"
    /\ loopPc' = "poll"
    /\ polled'.kind = "Publish"
    /\ UNCHANGED <<ready, subscriptions, clientStale, discPending, clientLock,
                   subsReaders, callerVars>>

C8_ReadyOnlyOnConnAck ==
    /\ ~ready
    /\ [](errs > 0 => ~ready)
    /\ [][/\ (~ready /\ ready') =>
                (loopPc = "poll" /\ loopPc' = "replay_read"
                     /\ polled' = PollConnAck)
          /\ (loopPc = "poll" /\ loopPc' = "sleep") => ~ready'
          /\ \A c \in Callers :
                (pc[c] = "idle" /\ pc'[c] = "dc_lock") => ~ready']_vars

\* a disconnect() call has made a connected service not ready
C8_Witness ==
    /\ ~ready
    /\ netUp
    /\ errs = 0
    /\ \E c \in Callers : pc[c] = "dc_lock"

\* C9: a subscribe() about to return Ok has its (topic, qos) in the tracked
\* set; the set changes only by the insert of a call whose underlying
\* subscribe succeeded, so a failed call leaves it unchanged.
C9_TrackedIffSucceeded ==
    /\ [](\A c \in Callers :
             (pc[c] = "sub_ret" /\ cResult[c] = "ok") =>
                 /\ cTopic[c] \in DOMAIN subscriptions
                 /\ subscriptions[cTopic[c]] = cQos[c])
    /\ [][subscriptions' # subscriptions =>
             \E c \in Callers :
                 /\ pc[c] = "sub_wwait"
                 /\ pc'[c] = "sub_ret"
                 /\ cResult[c] = "ok"
                 /\ subscriptions' =
                      [t \in DOMAIN subscriptions \cup {cTopic[c]} |->
                          IF t = cTopic[c] THEN cQos[c]
                          ELSE subscriptions[t]]]_vars

\* a subscribe() whose underlying call failed returns with its topic untracked
C9_Witness ==
    \E c \in Callers :
        /\ pc[c] = "sub_ret"
        /\ cResult[c] = "err"
        /\ cTopic[c] \notin DOMAIN subscriptions
        /\ subscriptions # <<>>

\* C10: resubscribe_tracked issues its calls one topic at a time, each
\* tracked topic at most once; only the last call issued can have failed;
\* it returns Err exactly when that call failed, with no call issued for
\* the remaining topics, and Ok exactly when every tracked topic was
\* re-issued; the tracked set does not change while the call runs.
C10_ResubscribeStopsAtFirstFailure ==
    /\ [](\A c \in Callers :
             pc[c] \in {"rs_iter", "rs_ret"} =>
                 LET is == cIssued[c]
                     failed == \E i \in 1..Len(is) : is[i].res = "err"
                 IN  /\ {r.topic : r \in Range(is)} \cup cTodo[c]
                            = DOMAIN subscriptions
                     /\ Len(is) + Cardinality(cTodo[c])
                            = Cardinality(DOMAIN subscriptions)
                     /\ \A i \in 1..Len(is) :
                            /\ is[i].qos = subscriptions[is[i].topic]
                            /\ i < Len(is) => is[i].res = "ok"
                     /\ pc[c] = "rs_iter" => ~failed
                     /\ pc[c] = "rs_ret" =>
                            /\ cResult[c] = "err" <=> failed
                            /\ cResult[c] = "ok" <=> (~failed /\ cTodo[c] = {}))
    /\ [][(\E c \in Callers : pc[c] \in {"rs_lock", "rs_iter", "rs_ret"})
             => subscriptions' = subscriptions]_vars

\* a resubscribe_tracked returns Err after its first call failed, with
\* another tracked topic left without a call
C10_Witness ==
    \E c \in Callers :
        /\ pc[c] = "rs_ret"
        /\ cResult[c] = "err"
        /\ Len(cIssued[c]) = 1
        /\ cTodo[c] # {}

\* C11: a publish call with a well-formed topic returns Ok at every point of
\* the reconnect cycle: after a transport error, during the backoff sleep,
\* while the client is rebuilt and swapped, and before the next broker
\* acknowledgment.
C11_PublishOkWhileDown ==
    \A c \in Callers :
        (pc[c] = "pub_ret" /\ WellFormedTopic(cTopic[c])) => cResult[c] = "ok"

(* ---------------------------------------------------------------------- *)
(* Event Bus properties, checked under SpecBus                             *)
(* ---------------------------------------------------------------------- *)
\* positions of the emission sequence a handle has been given
GotPositions(r) == {rxGot[r][i].pos : i \in DOMAIN rxGot[r]}

\* the handle has been given every event from its subscription up to its cursor
GotAllSoFar(r) == GotPositions(r) = (rxFrom[r] + 1)..(rxNext[r] - 1)

\* C12: a handle returned by events() never yields an event emitted before
\* that events() call returned, and a step that moves one handle's cursor
\* leaves the cursor of every other handle where it was.
C12_NoReplayOwnCursor ==
    [][/\ \A r \in Receivers : \A i \in DOMAIN rxGot'[r] :
             rxGot'[r][i].pos > rxFrom'[r]
       /\ \A r \in Receivers :
             (rxState[r] = "open" /\ rxNext'[r] # rxNext[r])
                 => \A q \in Receivers \ {r} : rxNext'[q] = rxNext[q]]_vars

\* a handle taken after events were emitted has been given a later event,
\* while another handle stands at a different position
C12_Witness ==
    \E r \in Receivers, q \in Receivers :
        /\ r # q
        /\ rxFrom[r] >= 2
        /\ Len(rxGot[r]) >= 1
        /\ rxState[q] = "open"
        /\ rxNext[q] # rxNext[r]

\* C13: what a single subscriber receives is a subsequence of the emission
\* sequence in the same order: every received event is the event emitted at
\* its position, and positions strictly increase, also across a lag.
C13_ReceivedInEmissionOrder ==
    \A r \in Receivers :
        /\ \A i \in DOMAIN rxGot[r] :
              /\ rxGot[r][i].pos \in DOMAIN chanLog
              /\ rxGot[r][i].evt = chanLog[rxGot[r][i].pos]
        /\ \A i \in DOMAIN rxGot[r], j \in DOMAIN rxGot[r] :
              i < j => rxGot[r][i].pos < rxGot[r][j].pos

\* a subscriber received an event, lagged and lost some, and received again
C13_Witness ==
    \E r \in Receivers :
        /\ rxLost[r] > 0
        /\ \E i \in DOMAIN rxGot[r] :
              /\ i + 1 \in DOMAIN rxGot[r]
              /\ rxGot[r][i + 1].pos > rxGot[r][i].pos + 1

\* C14: emitting never waits for a subscriber and never stops the loop: with
\* no subscriber, with subscribers that never read and with subscribers more
\* than the capacity behind, the send of every event can be taken at once.
C14_EmitNeverBlocks ==
    Len(chanLog) < MaxSent => \A e \in BusEvents : ENABLED LoopEmit(e)

\* an event was stored while an open handle that has read nothing was already
\* the whole capacity behind
C14_Witness ==
    /\ lastSend = "ok"
    /\ \E r \in OpenReceivers :
          /\ rxGot[r] = <<>>
          /\ Len(chanLog) - rxFrom[r] > BusCapacity

\* C15 as stated: every bridge has been given every Publish event emitted
\* between its subscription and its cursor, however slowly it reads.
C15_BridgeReceivesEverything ==
    \A r \in Receivers :
        rxKind[r] = "bridge" =>
            \A p \in (rxFrom[r] + 1)..(rxNext[r] - 1) :
                chanLog[p] # Connected => p \in GotPositions(r)

\* C15 as amended: a bridge that was never more than the channel capacity
\* behind has been given every event between its subscription and its cursor,
\* in emission order, whatever the other bridges do; a bridge that fell
\* further behind lost the oldest events and its loop has ended.
C15_BridgeReceivesWithinCapacity ==
    \A r \in Receivers :
        rxKind[r] = "bridge" =>
            /\ rxLost[r] = 0 => GotAllSoFar(r)
            /\ rxLost[r] = 0 =>
                  \A i \in DOMAIN rxGot[r] : rxGot[r][i].pos = rxFrom[r] + i
            /\ rxLost[r] > 0 => rxState[r] = "closed"

\* one bridge has been given everything while another one lagged and ended
C15_Witness ==
    \E r \in Receivers, q \in Receivers :
        /\ rxKind[r] = "bridge" /\ rxKind[q] = "bridge"
        /\ rxState[r] = "open" /\ rxLost[r] = 0 /\ Len(rxGot[r]) >= 3
        /\ rxLost[q] > 0

\* C16: when a subscriber is more than the capacity behind, events are lost
\* for that subscriber only: the step in which it loses events changes neither
\* the stored events nor any other subscriber, and every other subscriber is
\* given the event at its own cursor.
C16_LossOnlyForSlowSubscriber ==
    [][/\ \A r \in Receivers :
             rxLost'[r] > rxLost[r] =>
                 /\ chanLog' = chanLog
                 /\ \A q \in Receivers \ {r} :
                       /\ rxNext'[q] = rxNext[q]
                       /\ rxGot'[q] = rxGot[q]
                       /\ rxLost'[q] = rxLost[q]
                       /\ rxState'[q] = rxState[q]
       /\ \A q \in Receivers :
             (rxLost'[q] = 0 /\ rxState'[q] # "none") => GotAllSoFar(q)']_vars

\* one subscriber lost events while the other, subscribed no later, has been
\* given all of them
C16_Witness ==
    \E r \in Receivers, q \in Receivers :
        /\ rxLost[r] > 0
        /\ rxLost[q] = 0
        /\ rxFrom[q] <= rxFrom[r]
        /\ Len(rxGot[q]) > BusCapacity

HandledPublish == seen' # seen /\ Last(seen').evt.type = "Publish"

\* C17: handling a Publish whose payload cannot be decoded leaves every
\* cache, the device registry and every table as they were, and the loop has
\* taken the event and is back at recv.
C17_UndecodableChangesNothing ==
    [][(HandledPublish /\ Last(seen').evt.payload \notin JsonTexts)
          => /\ UNCHANGED storeVars
             /\ Len(seen') = Len(seen) + 1]_vars

\* an undecodable telemetry payload was handled for a device whose telemetry
\* is cached
C17_Witness ==
    /\ Len(seen) >= 2
    /\ Last(seen).evt.type = "Publish"
    /\ Last(seen).evt.payload \notin JsonTexts
    /\ Len(Last(seen).evt.topic) = 3
    /\ Last(seen).evt.topic[3] = "telemetry"
    /\ Last(seen).evt.topic[2] \in DOMAIN telemetry_cache

CacheKinds == {"telemetry", "autotune_status", "autotune_results"}

CacheOf(k) ==
    IF k = "telemetry" THEN telemetry_cache
    ELSE IF k = "autotune_status" THEN autotune_status_cache
    ELSE autotune_results_cache

\* event e is a decodable Publish the consumer routes to cache k of device d
Feeds(e, k, d) ==
    /\ e.type = "Publish"
    /\ e.payload \in JsonTexts
    /\ parse_roaster_topic(e.topic) # None
    /\ parse_roaster_topic(e.topic)[1].device = d
    /\ IF k = "telemetry"
       THEN parse_roaster_topic(e.topic)[1].kind = "telemetry"
       ELSE /\ parse_roaster_topic(e.topic)[1].kind = "autotune"
            /\ Len(e.topic) >= 4
            /\ e.topic[4] = (IF k = "autotune_status" THEN "status" ELSE "results")

Feeders(k, d) == {i \in DOMAIN seen : Feeds(seen[i].evt, k, d)}

Latest(S) == CHOOSE i \in S : \A j \in S : j <= i

KnownShape(topic) ==
    \E d \in Devices :
        topic \in { <<ROOT, d, "telemetry">>, <<ROOT, d, "status">>,
                    <<ROOT, d, "autotune", "status">>,
                    <<ROOT, d, "autotune", "results">> }

\* C19: handling a Publish whose topic is not exactly of a known shape leaves
\* every cache, the device registry and every table as they were.
C19_OnlyKnownShapesUpdate ==
    [][(HandledPublish /\ ~KnownShape(Last(seen').evt.topic))
          => UNCHANGED storeVars]_vars

RegistryFields == {"id", "ip", "version", "rssi"}

\* C20: a registry field that holds a value is never cleared, and changes
\* only when the handled status message provides that field.
C20_RegistryFieldNeverCleared ==
    [][\A d \in DOMAIN device_registry : \A f \in RegistryFields :
          device_registry[d][f] # None =>
              /\ device_registry'[d][f] # None
              /\ device_registry'[d][f] # device_registry[d][f] =>
                    /\ HandledPublish
                    /\ Last(seen').evt.payload \in JsonTexts
                    /\ f \in DOMAIN JsonOf(Last(seen').evt.payload)]_vars

(* ---------------------------------------------------------------------- *)
(* Persistence properties, checked under SpecPersist                       *)
(* ---------------------------------------------------------------------- *)
\* the step handled a decodable telemetry Publish of device d
HandledTelemetry(d) ==
    HandledPublish /\ Feeds(Last(seen').evt, "telemetry", d)

\* rows the step added to the device log and to the session telemetry
DeviceLogAdded == Len(telemetry_tbl') - Len(telemetry_tbl)
SessionRowsAdded ==
    {session_telemetry_tbl'[i].session_id :
        i \in (Len(session_telemetry_tbl) + 1)..Len(session_telemetry_tbl')}
SessionRowCount == Len(session_telemetry_tbl') - Len(session_telemetry_tbl)

\* sessions of device d whose status is in S
SessionsIn(d, S) ==
    {i \in DOMAIN roast_sessions :
        roast_sessions[i].device_id = d /\ roast_sessions[i].status \in S}

\* C21: with the database working, a decodable telemetry Publish writes one
\* device-log row and no session-telemetry row when the device has no active
\* session, and one device-log row and one session-telemetry row, for its
\* active session, when it has one.
C21_OneRowOrTwo ==
    [][\A d \in Devices :
          (HandledTelemetry(d) /\ dbFail = {}) =>
              /\ DeviceLogAdded = 1
              /\ IF get_active_session(d) = {}
                 THEN SessionRowCount = 0
                 ELSE /\ SessionRowCount = 1
                      /\ SessionRowsAdded = get_active_session(d)]_vars

\* C22: with two or more sessions of the device in status active, the
\* telemetry is attached to exactly one of them, the one started last.
C22_MostRecentOfSeveral ==
    [][\A d \in Devices :
          (/\ HandledTelemetry(d)
           /\ dbFail = {}
           /\ Cardinality(SessionsIn(d, {"active"})) >= 2)
              => /\ SessionRowCount = 1
                 /\ SessionRowsAdded = get_active_session(d)]_vars

\* C23: a device with one session that is active or paused gets the
\* telemetry attached to that session, paused as well as active; a device
\* whose sessions are all planning, completed, failed or cancelled gets it
\* attached to none.
C23_PausedCountsAsActive ==
    [][\A d \in Devices :
          (HandledTelemetry(d) /\ dbFail = {}) =>
              /\ Cardinality(SessionsIn(d, {"active", "paused"})) = 1
                    => /\ SessionRowCount = 1
                       /\ SessionRowsAdded = get_active_session(d)
              /\ SessionsIn(d, {"active", "paused"}) = {}
                    => SessionRowCount = 0]_vars

\* C24: whichever insert fails, a decodable telemetry Publish updates the
\* telemetry cache with its value and arrival time and the loop has taken
\* the event; when only the device-log insert fails, the session-telemetry
\* insert is still made for every session the statement selects.
C24_InsertsAreBestEffort ==
    [][\A d \in Devices :
          HandledTelemetry(d) =>
              /\ d \in DOMAIN telemetry_cache'
              /\ telemetry_cache'[d] =
                    [val |-> JsonOf(Last(seen').evt.payload),
                     ts |-> Last(seen').at]
              /\ Len(seen') = Len(seen) + 1
              /\ "telemetry" \in dbFail => DeviceLogAdded = 0
              /\ ("telemetry" \in dbFail /\ "session_telemetry" \notin dbFail)
                    => SessionRowCount = Len(ActiveSessions(d))]_vars

\* two events were handled whose device-log inserts failed, the cache holds
\* the telemetry and a session-telemetry row was written all the same
C24_Witness ==
    /\ Len(seen) = 2
    /\ telemetry_tbl = <<>>
    /\ session_telemetry_tbl # <<>>
    /\ "d1" \in DOMAIN telemetry_cache

(* ---------------------------------------------------------------------- *)
(* Session lifecycle, checked under SpecSession                            *)
(* ---------------------------------------------------------------------- *)
TerminalStatus == {"completed", "failed", "cancelled"}

\* Planning -> Active -> {Paused <-> Active} -> {Completed, Failed, Cancelled}
LifecycleEdges ==
    {<<"planning", "active">>, <<"active", "paused">>, <<"paused", "active">>}
        \cup ({"active", "paused"} \X TerminalStatus)

\* the status of session id in table tbl, as a set: empty when there is no row
StatusIn(tbl, id) == {tbl[i].status : i \in {j \in DOMAIN tbl : tbl[j].id = id}}

\* C29: every status change made by a session operation follows an edge of
\* the lifecycle graph, a new session is in Planning, and a session in a
\* terminal status keeps it.
C29_StatusFollowsLifecycle ==
    [][\A id \in SessionIds :
          /\ (StatusIn(roast_sessions, id) = {}
                 /\ StatusIn(roast_sessions', id) # {})
                => StatusIn(roast_sessions', id) = {"planning"}
          /\ \A old \in StatusIn(roast_sessions, id) :
                \A new \in StatusIn(roast_sessions', id) :
                    old # new => <<old, new>> \in LifecycleEdges]_vars

\* one session went through start, pause and completion and was updated,
\* while another one is active
C29_Witness ==
    \E i \in DOMAIN roast_sessions, j \in DOMAIN roast_sessions :
        /\ roast_sessions[i].status = "completed"
        /\ roast_sessions[i].notes # None
        /\ roast_sessions[j].status = "active"

\* the sessions of device d that are Active or Paused
LiveSessions(d) ==
    {i \in DOMAIN roast_sessions :
        /\ roast_sessions[i].device_id = d
        /\ roast_sessions[i].status \in {"active", "paused"}}

\* C36: after any sequence of session operations each device has at most
\* one session that is Active or Paused.
C36_OneLiveSessionPerDevice ==
    \A d \in Devices : Cardinality(LiveSessions(d)) <= 1

\* C38: from an Active or Paused session each of Completed, Failed and
\* Cancelled can be reached: some session operation is able to set it.
C38_EveryTerminalReachable ==
    \A id \in SessionIds : \A t \in TerminalStatus :
        (StatusIn(roast_sessions, id) \cap {"active", "paused"} # {})
            => ENABLED (NextSession /\ StatusIn(roast_sessions', id) = {t})

\* no operation writes Failed or Cancelled
NeverFailedOrCancelled ==
    \A i \in DOMAIN roast_sessions :
        roast_sessions[i].status \notin {"failed", "cancelled"}

\* the row of session id in table tbl, as a set
RowIn(tbl, id) == {tbl[i] : i \in {j \in DOMAIN tbl : tbl[j].id = id}}

\* the step is an update_session: the notes of a session changed
NotesChanged(id) ==
    \E old \in RowIn(roast_sessions, id), new \in RowIn(roast_sessions', id) :
        old.notes # new.notes

\* C39: start_time is unset exactly in status Planning and end_time is set
\* exactly in status Completed, for every session in every reachable state,
\* and update_session leaves status, device, start_time and end_time alone.
C39_TimesMatchStatus ==
    /\ [](\A i \in DOMAIN roast_sessions :
            /\ roast_sessions[i].start_time = None
                  <=> roast_sessions[i].status = "planning"
            /\ roast_sessions[i].end_time # None
                  <=> roast_sessions[i].status = "completed")
    /\ [][\A id \in SessionIds :
            NotesChanged(id) =>
                \A old \in RowIn(roast_sessions, id) :
                    \A new \in RowIn(roast_sessions', id) :
                        /\ new.status = old.status
                        /\ new.device_id = old.device_id
                        /\ new.start_time = old.start_time
                        /\ new.end_time = old.end_time]_vars

\* a completed session whose notes were updated, next to a paused one
C39_Witness ==
    \E i \in DOMAIN roast_sessions, j \in DOMAIN roast_sessions :
        /\ roast_sessions[i].status = "completed"
        /\ roast_sessions[i].end_time # None
        /\ roast_sessions[i].notes = Some("y")
        /\ roast_sessions[j].status = "paused"
        /\ roast_sessions[j].start_time # None

(* ---------------------------------------------------------------------- *)
(* Lock order, checked under Spec                                          *)
(* ---------------------------------------------------------------------- *)
\* task t holds a read guard of subscriptions and awaits the client mutex
ReaderAwaitsClient(t) ==
    /\ t \in subsReaders
    /\ IF t = LoopTask THEN loopPc = "replay_lock" ELSE pc[t] = "rs_lock"

\* caller c holds the client mutex and awaits subscriptions.write()
ClientHolderAwaitsWrite(c) == clientLock = c /\ pc[c] = "sub_wwait"

\* C30: the client mutex and the subscriptions lock are never held in a
\* cycle: no task holds the client mutex awaiting the write guard while a
\* task that holds a read guard awaits the client mutex.
C30_NoLockCycle ==
    ~ \E c \in Callers, t \in Callers \cup {LoopTask} :
          ClientHolderAwaitsWrite(c) /\ ReaderAwaitsClient(t)

(* ---------------------------------------------------------------------- *)
(* Telemetry bridge: the body of telemetry_ws_loop, one step per event it  *)
(* takes from its handle. Its inputs are the event and whether the send to *)
(* the client succeeds.                                                    *)
(* ---------------------------------------------------------------------- *)
\* topics and payloads the bridge is given
WsTopics == TopicsOf("d1")
WsPayloads == {"{id:a,ip:i,version:v,rssi:-50,ts:9}", "not json", LongJson, LongRaw}

\* length in bytes of a text
ByteLen(p) ==
    CASE p = "{id:a,ip:i,version:v,rssi:-50,ts:9}" -> 35
      [] p = "{id:7,version:w,ts:5}" -> 21
      [] p = "not json" -> 8
      [] p = LongJson -> 96
      [] p = LongRaw -> 75
      [] p \in Devices -> 2

\* bytes of {"device_id":"","telemetry":} and {"device_id":"","telemetry_raw":""}
EnvelopeLen == 29
RawEnvelopeLen == 35

\* end of the range &msg_text[..100]
SliceEnd == 100

\* serde_json::json!({"device_id": .., "telemetry": val}) or, when the
\* payload does not decode, {"device_id": .., "telemetry_raw": text}
msg_text(d, p) ==
    IF from_slice(p) # None
    THEN [device_id |-> d, telemetry |-> from_slice(p), telemetry_raw |-> None]
    ELSE [device_id |-> d, telemetry |-> None, telemetry_raw |-> Some(p)]

\* msg_text.len()
MsgLen(d, p) ==
    IF from_slice(p) # None THEN EnvelopeLen + ByteLen(d) + ByteLen(p)
    ELSE RawEnvelopeLen + ByteLen(d) + ByteLen(p)

\* {"device_id": .., "autotune": {"type": sub, "data": val}} or autotune_raw
autotune_text(d, sub, p) ==
    IF from_slice(p) # None
    THEN [device_id |-> d, type |-> sub, autotune |-> from_slice(p),
          autotune_raw |-> None]
    ELSE [device_id |-> d, type |-> sub, autotune |-> None,
          autotune_raw |-> Some(p)]

\* the upgraded socket is handed to telemetry_ws_loop: ws_clients.inc() and
\* state.mqtt.events()
WsConnect ==
    /\ ws_state = "idle"
    /\ ws_state' = "recv"
    /\ ws_clients' = ws_clients + 1
    /\ UNCHANGED <<connVars, reqVars, chanVars, cacheVars, dbVars, apiVars, ws_in, ws_out,
                   pings, pongs, ackPc, ackWait, ackResp>>

\* the loop is left: socket.close() and ws_clients.dec()
WsLeave == ws_state' = "ended" /\ ws_clients' = ws_clients - 1

\* socket.send(Message::Text(m)).await: on an error the loop is left
WsSend(m, ok) ==
    IF ok THEN /\ ws_out' = Append(ws_out, m)
               /\ UNCHANGED <<ws_state, ws_clients>>
    ELSE ws_out' = ws_out /\ WsLeave

\* the body of the loop for a Publish event
WsPublish(topic, p, ok) ==
    /\ ws_state = "recv"
    /\ Len(ws_in) < MaxEvents
    /\ ws_in' = Append(ws_in, [evt |-> Publish(topic, p), ok |-> ok])
    /\ LET parsed == parse_roaster_topic(topic)
       IN  IF parsed = None
           THEN UNCHANGED <<ws_out, ws_state, ws_clients>>
           ELSE IF parsed[1].kind = "telemetry"
           THEN \* &msg_text[..100] panics on a shorter text: the task ends
                \* there, before the send and before ws_clients.dec()
                IF MsgLen(parsed[1].device, p) < SliceEnd
                THEN /\ ws_state' = "panicked"
                     /\ UNCHANGED <<ws_out, ws_clients>>
                ELSE WsSend(msg_text(parsed[1].device, p), ok)
           ELSE IF parsed[1].kind = "autotune" /\ Len(topic) >= 4
           THEN WsSend(autotune_text(parsed[1].device, topic[4], p), ok)
           ELSE UNCHANGED <<ws_out, ws_state, ws_clients>>
    /\ UNCHANGED <<connVars, reqVars, chanVars, cacheVars, dbVars, apiVars, pings, pongs, ackPc,
                   ackWait, ackResp>>

\* an event that is not a Publish: nothing is sent
WsOther(e) ==
    /\ ws_state = "recv"
    /\ Len(ws_in) < MaxEvents
    /\ ws_in' = Append(ws_in, [evt |-> e, ok |-> TRUE])
    /\ UNCHANGED <<connVars, reqVars, chanVars, cacheVars, dbVars, apiVars, ws_out, ws_state,
                   ws_clients, pings, pongs, ackPc, ackWait, ackResp>>

\* rx.recv() returns an error: `while let Ok(..)` ends
WsRecvErr ==
    /\ ws_state = "recv"
    /\ WsLeave
    /\ UNCHANGED <<connVars, reqVars, chanVars, cacheVars, dbVars, apiVars, ws_in, ws_out, pings,
                   pongs, ackPc, ackWait, ackResp>>

NextBridge ==
    \/ WsConnect
    \/ \E t \in WsTopics, p \in WsPayloads, ok \in BOOLEAN : WsPublish(t, p, ok)
    \/ WsOther(Connected)
    \/ WsRecvErr

SpecBridge == Init /\ [][NextBridge]_vars

\* the step handled a Publish on a telemetry topic
WsHandledTelemetry ==
    /\ ws_in' # ws_in
    /\ Last(ws_in').evt.type = "Publish"
    /\ parse_roaster_topic(Last(ws_in').evt.topic) # None
    /\ parse_roaster_topic(Last(ws_in').evt.topic)[1].kind = "telemetry"

\* C26: for every telemetry Publish a live bridge takes, one message goes to
\* the client, {device_id, telemetry: decoded} or the raw fallback, whatever
\* the length of the message, and when the send succeeds the bridge goes on.
C26_OneMessagePerTelemetry ==
    [][(WsHandledTelemetry /\ Last(ws_in').ok)
          => LET e == Last(ws_in').evt
                 d == parse_roaster_topic(e.topic)[1].device
             IN  /\ ws_out' = Append(ws_out, msg_text(d, e.payload))
                 /\ ws_state' = "recv"]_vars

\* bridge tasks that are running
RunningBridges == IF ws_state = "recv" THEN 1 ELSE 0

\* C40: the gauge of connected WebSocket clients equals the number of
\* bridge tasks that are running, whichever way a bridge has ended.
C40_GaugeCountsRunningBridges == ws_clients = RunningBridges

(* ---------------------------------------------------------------------- *)
(* Control commands with a delivery confirmation:                          *)
(* publish_qos1_and_maybe_wait_ack, one step per await. Its inputs are     *)
(* wait_ack, the outcome of the publish and the events run_eventloop sends  *)
(* meanwhile.                                                              *)
(* ---------------------------------------------------------------------- *)
\* the handle the handler takes with state.mqtt.events()
AckRx == "r1"

\* status codes: NO_CONTENT, BAD_GATEWAY, GATEWAY_TIMEOUT
NO_CONTENT == 204
BAD_GATEWAY == 502
GATEWAY_TIMEOUT == 504

\* events run_eventloop sends while the handler runs
AckEvents == BusEvents \cup {PubAck(id) : id \in PacketIds}

\* match evt { MqttEvent::PubAck(_) => NO_CONTENT, _ => NO_CONTENT }
AckResponse(evt) == IF evt.type = "PubAck" THEN NO_CONTENT ELSE NO_CONTENT

\* the handler returns code: its handle is dropped
AckReturn(code) ==
    /\ ackResp' = code
    /\ ackPc' = "done"
    /\ rxState' = [rxState EXCEPT ![AckRx] = "closed"]

\* let mut rx = state.mqtt.events();
AckStart(w) ==
    /\ ackPc = "idle"
    /\ rxState[AckRx] = "none"
    /\ ackPc' = "publish"
    /\ ackWait' = w
    /\ rxState' = [rxState EXCEPT ![AckRx] = "open"]
    /\ rxKind' = [rxKind EXCEPT ![AckRx] = "handler"]
    /\ rxNext' = [rxNext EXCEPT ![AckRx] = SubscribeCursor(chanLog)]
    /\ rxFrom' = [rxFrom EXCEPT ![AckRx] = Len(chanLog)]
    /\ UNCHANGED <<connVars, reqVars, cacheVars, dbVars, apiVars, chanLog, lastSend, rxGot, rxLost,
                   ws_clients, ws_state, ws_in, ws_out, pings, pongs, ackResp>>

\* state.mqtt.publish(topic, QoS::AtLeastOnce, false, payload).await
AckPublish(ok) ==
    /\ ackPc = "publish"
    /\ IF ~ok THEN AckReturn(BAD_GATEWAY)
       ELSE IF ~ackWait THEN AckReturn(NO_CONTENT)
       ELSE ackPc' = "wait" /\ UNCHANGED <<ackResp, rxState>>
    /\ UNCHANGED <<connVars, reqVars, cacheVars, dbVars, apiVars, chanLog, lastSend, rxKind, rxNext,
                   rxFrom, rxGot, rxLost, ws_clients, ws_state, ws_in, ws_out, pings, pongs,
                   ackWait>>

\* timeout(.., rx.recv()) is ready with what recv returns: Ok(Ok(evt)) gives
\* the response of the match, Ok(Err(Lagged)) falls into the else branch
AckRecv ==
    /\ ackPc = "wait"
    /\ rxNext[AckRx] <= Len(chanLog)
    /\ IF rxNext[AckRx] < Oldest(chanLog)
       THEN /\ rxLost' = [rxLost EXCEPT ![AckRx] = @ + Oldest(chanLog) - rxNext[AckRx]]
            /\ rxNext' = [rxNext EXCEPT ![AckRx] = Oldest(chanLog)]
            /\ UNCHANGED rxGot
            /\ AckReturn(GATEWAY_TIMEOUT)
       ELSE /\ rxGot' = [rxGot EXCEPT ![AckRx] =
                   Append(@, [pos |-> rxNext[AckRx], evt |-> chanLog[rxNext[AckRx]]])]
            /\ rxNext' = [rxNext EXCEPT ![AckRx] = @ + 1]
            /\ UNCHANGED rxLost
            /\ AckReturn(AckResponse(chanLog[rxNext[AckRx]]))
    /\ UNCHANGED <<connVars, reqVars, cacheVars, dbVars, apiVars, chanLog, lastSend, rxKind, rxFrom,
                   ws_clients, ws_state, ws_in, ws_out, pings, pongs, ackWait>>

\* the timeout elapses with no event at the cursor
AckTimeout ==
    /\ ackPc = "wait"
    /\ rxNext[AckRx] > Len(chanLog)
    /\ AckReturn(GATEWAY_TIMEOUT)
    /\ UNCHANGED <<connVars, reqVars, cacheVars, dbVars, apiVars, chanLog, lastSend, rxKind, rxNext,
                   rxFrom, rxGot, rxLost, ws_clients, ws_state, ws_in, ws_out, pings, pongs,
                   ackWait>>

NextAck ==
    \/ \E w \in BOOLEAN : AckStart(w)
    \/ \E ok \in BOOLEAN : AckPublish(ok)
    \/ AckRecv
    \/ AckTimeout
    \/ \E e \in AckEvents : LoopEmit(e)

SpecAck == Init /\ [][NextAck]_vars

\* an Acknowledged event reached the handler
AckArrived == \E i \in DOMAIN rxGot[AckRx] : rxGot[AckRx][i].evt.type = "PubAck"

\* C28: a caller that asked for a delivery confirmation and whose publish
\* went out gets the success result only if an Acknowledged event arrived
\* within the timeout, and otherwise the timeout result, whatever other
\* events arrived.
C28_SuccessOnlyOnAck ==
    (ackPc = "done" /\ ackWait /\ ackResp # BAD_GATEWAY)
        => /\ ackResp = NO_CONTENT <=> AckArrived
           /\ ackResp = GATEWAY_TIMEOUT <=> ~AckArrived

(* ---------------------------------------------------------------------- *)
(* Debug bridge: debug_ws_loop, a loop around select! over socket.recv()   *)
(* and rx.recv(). Its handle behaves as that of a bridge: any error of     *)
(* rx.recv() leaves the loop. One step per branch taken, the send of the   *)
(* branch included; a failed send or a closed socket is BridgeClose.       *)
(* ---------------------------------------------------------------------- *)
\* the handle debug_ws_loop takes with state.mqtt.events()
DebugRx == "r1"

\* events run_eventloop sends while the bridge runs
DebugEvents ==
    {Connected, Disconnected("error"), Publish("m1", "x"), PubAck(7)}

\* the client sends {"type":"ping"} on its open socket
DebugPing ==
    /\ rxState[DebugRx] = "open"
    /\ pings < MaxPings
    /\ pings' = pings + 1
    /\ UNCHANGED <<connVars, reqVars, chanVars, cacheVars, dbVars, apiVars, ws_clients, ws_state, ws_in,
                   ws_out, pongs, ackPc, ackWait, ackResp>>

\* branch ws_msg = socket.recv(): a ping frame is read and the pong is sent
DebugPong ==
    /\ rxState[DebugRx] = "open"
    /\ pongs < pings
    /\ pongs' = pongs + 1
    /\ UNCHANGED <<connVars, reqVars, chanVars, cacheVars, dbVars, apiVars, ws_clients, ws_state, ws_in,
                   ws_out, pings, ackPc, ackWait, ackResp>>

NextDebug ==
    \/ RxSubscribe(DebugRx, "bridge")
    \/ \E e \in DebugEvents : LoopEmit(e)
    \/ RxRecv(DebugRx)
    \/ DebugPing
    \/ DebugPong
    \/ BridgeClose(DebugRx)

\* select! takes a branch that stays ready
SpecDebug ==
    /\ Init /\ [][NextDebug]_vars
    /\ WF_vars(RxRecv(DebugRx))
    /\ WF_vars(DebugPong)

\* the client closed the socket or a send to it failed
SocketGone == rxState[DebugRx] = "closed" /\ rxLost[DebugRx] = 0

\* C27: every ping the client has sent is eventually answered with a pong
\* and every event stored after the bridge subscribed is eventually
\* forwarded, unless the client's socket is gone.
C27_BothDirectionsServed ==
    /\ \A n \in 1..MaxPings : (pings >= n) ~> (pongs >= n \/ SocketGone)
    /\ \A n \in 1..MaxSent :
          (rxState[DebugRx] # "none" /\ rxFrom[DebugRx] < n /\ n <= Len(chanLog))
              ~> (n \in GotPositions(DebugRx) \/ SocketGone)

(* ---------------------------------------------------------------------- *)
(* Session handlers: api_create_session and api_start_session ..           *)
(* api_complete_session call the service and turn Ok(Some(session)) into   *)
(* the session as JSON and Ok(None) into NOT_FOUND.                        *)
(* ---------------------------------------------------------------------- *)
\* status codes of the responses: Json(session) and StatusCode::NOT_FOUND
OK == 200
NOT_FOUND == 404

\* match service.op(&id).await { Ok(Some(s)) => Json(s), Ok(None) => NOT_FOUND }
\* around an UPDATE .. WHERE id = ? AND status IN from that sets columns set
ApiUpdate(name, id, from, set) ==
    /\ apiCall' = <<name, id>>
    /\ IF Matches(id, from)
       THEN /\ roast_sessions' = UpdateWhere(id, from, set)
            /\ apiResp' = OK
       ELSE /\ roast_sessions' = roast_sessions
            /\ apiResp' = NOT_FOUND
    /\ UNCHANGED <<connVars, reqVars, chanVars, wsVars, storeVars, metricVars, seen,
                   session_seq, dbFail>>

api_create_session(d) ==
    /\ session_seq < MaxSessions
    /\ session_seq' = session_seq + 1
    /\ roast_sessions' =
          Append(roast_sessions,
                 [id |-> session_seq + 1, device_id |-> d,
                  status |-> "planning", start_time |-> None,
                  end_time |-> None, notes |-> None])
    /\ apiCall' = <<"create", session_seq + 1>>
    /\ apiResp' = OK
    /\ UNCHANGED <<connVars, reqVars, chanVars, wsVars, cacheVars, dbFail>>

\* the clock moves when a start takes effect
api_start_session(id) ==
    /\ ApiUpdate("start", id, StartFrom, StartColumns(now + 1))
    /\ now' = IF Matches(id, StartFrom) THEN now + 1 ELSE now

api_pause_session(id) ==
    /\ ApiUpdate("pause", id, {"active"}, [status |-> "paused"])
    /\ UNCHANGED now

api_resume_session(id) ==
    /\ ApiUpdate("resume", id, {"paused"}, [status |-> "active"])
    /\ UNCHANGED now

api_complete_session(id) ==
    /\ ApiUpdate("complete", id, {"active", "paused"},
                 [status |-> "completed", end_time |-> Some(now)])
    /\ UNCHANGED now

NextApi ==
    \/ \E d \in Devices : api_create_session(d)
    \/ \E id \in SessionIds :
          \/ api_start_session(id)
          \/ api_pause_session(id)
          \/ api_resume_session(id)
          \/ api_complete_session(id)

SpecApi == Init /\ [][NextApi]_vars

\* the status a lifecycle operation requires of the session
RequiredStatus(name) ==
    CASE name = "start" -> {"planning"}
      [] name = "pause" -> {"active"}
      [] name = "resume" -> {"paused"}
      [] name = "complete" -> {"active", "paused"}

\* C37: a lifecycle operation called on an unknown id or on a session that
\* is not in the status it requires returns not-found and leaves the
\* session as it was.
C37_WrongStateIsNotFound ==
    [][\A id \in SessionIds :
          \A name \in {"start", "pause", "resume", "complete"} :
            (/\ apiCall' = <<name, id>>
             /\ StatusIn(roast_sessions, id) \cap RequiredStatus(name) = {})
                => /\ apiResp' = NOT_FOUND
                   /\ roast_sessions' = roast_sessions]_vars

\* a pause was refused for a completed session and a call on an unknown id
\* would be refused as well
C37_Witness ==
    /\ apiCall = <<"pause", 1>>
    /\ apiResp = NOT_FOUND
    /\ StatusIn(roast_sessions, 1) = {"completed"}
    /\ StatusIn(roast_sessions, 2) = {}

(* ---------------------------------------------------------------------- *)
(* Retention: retention_cleanup_loop, one step per tick of its interval,   *)
(* next to the consumer that fills the tables and to the passing of time.  *)
(* ---------------------------------------------------------------------- *)
\* the latest reading of the clock that the passing of time alone leads to
MaxNow == MaxEvents + 1

\* a cutoff that forgets the ttl
Cutoff_Now(t, ttl) == t

\* epoch_secs().saturating_sub(ttl)
Cutoff(t, ttl) == IF t > ttl THEN t - ttl ELSE 0

\* DELETE FROM telemetry WHERE ts < cutoff; `let _ =` drops a failure
DeleteOlder(name, tbl, cutoff) ==
    LET Keep(r) == ~(r.ts < cutoff)
    IN  IF name \in dbFail THEN tbl ELSE SelectSeq(tbl, Keep)

\* ticker.tick().await, then the DELETE
retention_cleanup ==
    /\ telemetry_tbl' =
          DeleteOlder("telemetry", telemetry_tbl, Cutoff(now, RetentionTtl))
    /\ UNCHANGED <<telemetry_cache, autotune_status_cache,
                   autotune_results_cache, device_registry,
                   autotune_status_tbl, autotune_results_tbl,
                   session_telemetry_tbl, metricVars, now, seen>>
    /\ UNCHANGED <<connVars, reqVars, chanVars, dbVars, wsVars, apiVars, reqVars>>

\* time passes between two steps
TimePasses ==
    /\ now < MaxNow
    /\ now' = now + 1
    /\ UNCHANGED <<storeVars, metricVars, seen>>
    /\ UNCHANGED <<connVars, reqVars, chanVars, dbVars, wsVars, apiVars, reqVars>>

\* topics whose events fill the tables: telemetry and autotune status
RetentionTopics == {<<ROOT, "d1", "telemetry">>, <<ROOT, "d1", "autotune", "status">>}

NextRetention ==
    \/ retention_cleanup
    \/ TimePasses
    \/ \E topic \in RetentionTopics, p \in PersistPayloads :
          ConsumePublish(topic, p, now)
    \/ \E d \in PersistDevices : create_session(d)
    \/ \E id \in SessionIds : start_session(id)
    \/ \E S \in SUBSET {"telemetry"} : DbFault(S)

SpecRetention == Init /\ [][NextRetention]_vars

\* the rows of the device log that are older than now minus the TTL
OldRows ==
    {i \in DOMAIN telemetry_tbl : telemetry_tbl[i].ts < now - RetentionTtl}

\* the rows of the device log that are not
NewerRows ==
    LET Newer(r) == r.ts >= now - RetentionTtl
    IN  SelectSeq(telemetry_tbl, Newer)

\* the step is a cleanup tick: the device log shrinks
CleanupStep == Len(telemetry_tbl') < Len(telemetry_tbl)

\* C34: a cleanup tick whose statement runs deletes exactly the rows of the
\* device log older than now minus the TTL: it is able to whenever there is
\* such a row, the newer rows stay, the autotune, session and
\* session-telemetry tables stay, and the client mutex and the subscription
\* lock are not touched.
C34_CleanupDeletesOldRowsOnly ==
    /\ []((OldRows # {} /\ "telemetry" \notin dbFail)
            => ENABLED (retention_cleanup /\ CleanupStep))
    /\ [][CleanupStep =>
            /\ telemetry_tbl' = NewerRows
            /\ UNCHANGED <<autotune_status_tbl, autotune_results_tbl,
                           session_telemetry_tbl, roast_sessions>>
            /\ UNCHANGED <<telemetry_cache, autotune_status_cache,
                           autotune_results_cache, device_registry>>
            /\ UNCHANGED <<clientLock, subsReaders>>]_vars

\* a tick has deleted the old row of the device log and kept the newer one,
\* while the other tables hold rows older than the cutoff
C34_Witness ==
    /\ Len(seen) = MaxEvents
    /\ Len(telemetry_tbl) = 1
    /\ telemetry_tbl[1].ts >= now - RetentionTtl
    /\ \E i \in DOMAIN seen :
          /\ seen[i].evt.topic = <<ROOT, "d1", "telemetry">>
          /\ seen[i].at < telemetry_tbl[1].ts
    /\ session_telemetry_tbl # <<>>
    /\ session_telemetry_tbl[1].timestamp < now - RetentionTtl

(* ---------------------------------------------------------------------- *)
(* The consumer on the bus: mqtt_consumer_loop takes its handle once and   *)
(* loops over rx.recv().await for good; the task runs whenever an event or *)
(* an error is ready for it.                                               *)
(* ---------------------------------------------------------------------- *)
\* the handle mqtt_consumer_loop takes with mqtt.events()
ConsumerRx == "r2"

NextConsumer ==
    \/ RxSubscribe(ConsumerRx, "consumer")
    \/ \E e \in DebugEvents : LoopEmit(e)
    \/ RxRecv(ConsumerRx)

SpecConsumer ==
    /\ Init /\ [][NextConsumer]_vars
    /\ WF_vars(RxRecv(ConsumerRx))

\* positions the cursor of a handle went past without the event being given
SkippedPositions(r) == ((rxFrom[r] + 1)..(rxNext[r] - 1)) \ GotPositions(r)

\* C35: the consumer never leaves its loop; a receive that reports lost
\* events moves it to the oldest event still retained, only the events
\* reported lost are skipped, and every event stored while it runs is
\* eventually given to it unless it was reported lost.
C35_ConsumerGoesOnAfterLag ==
    /\ [](rxState[ConsumerRx] \in {"none", "open"})
    /\ [](Cardinality(SkippedPositions(ConsumerRx)) = rxLost[ConsumerRx])
    /\ [][rxLost'[ConsumerRx] > rxLost[ConsumerRx]
            => /\ rxNext'[ConsumerRx] = Oldest(chanLog)
               /\ rxNext'[ConsumerRx] <= Len(chanLog')]_vars
    /\ []((rxState[ConsumerRx] = "open"
             /\ rxNext[ConsumerRx] <= Len(chanLog))
            => ENABLED RxRecv(ConsumerRx))
    /\ \A n \in 1..MaxSent :
          (rxState[ConsumerRx] = "open" /\ rxFrom[ConsumerRx] < n
                /\ n <= Len(chanLog))
              ~> (n \in GotPositions(ConsumerRx)
                     \/ n \in SkippedPositions(ConsumerRx))

\* the consumer lost the first event after its subscription and has since
\* been given the latest one
C35_Witness ==
    /\ rxState[ConsumerRx] = "open"
    /\ rxLost[ConsumerRx] > 0
    /\ rxFrom[ConsumerRx] + 1 \in SkippedPositions(ConsumerRx)
    /\ Len(chanLog) = MaxSent
    /\ MaxSent \in GotPositions(ConsumerRx)

(* ---------------------------------------------------------------------- *)
(* Request channel: build_client makes the client with a request channel   *)
(* of capacity 64, client.publish and client.subscribe send into it and    *)
(* wait while it is full, and only poll() of the EventLoop built with that *)
(* client takes requests off it, once its connection is up.                *)
(* ---------------------------------------------------------------------- *)
\* Request::Subscribe, and Request::Publish with the number of the call
SubscribeRequest == [kind |-> "subscribe"]
PublishRequest(n) == [kind |-> "publish", id |-> n]

\* a send into the channel has to wait
ChannelFull == Len(requests) >= ReqCapacity

\* the publish requests waiting in a channel
PublishRequests(q) ==
    {q[i].id : i \in {j \in DOMAIN q : q[j].kind = "publish"}}

\* the task that publishes and the task that subscribes
ReqPublisher == "c1"
ReqSubscriber == "c2"

\* one replay iteration: an accepted subscribe is sent into the channel
ReqReplayNext ==
    /\ LoopReplayCall
    /\ IF loopIssued'[Len(loopIssued')].res = "ok"
       THEN /\ ~ChannelFull
            /\ requests' = Append(requests, SubscribeRequest)
       ELSE UNCHANGED requests
    /\ UNCHANGED <<reqSeq, accepted, handed, discarded>>

\* poll() with the connection up takes the oldest request and hands it to the
\* transport; the Outgoing event it returns meets the Ok(other) arm
ReqPoll ==
    /\ loopPc = "poll"
    /\ netUp
    /\ requests # <<>>
    /\ requests' = Tail(requests)
    /\ handed' = handed \cup PublishRequests(<<Head(requests)>>)
    /\ polled' = PollOther
    /\ UNCHANGED <<ready, subscriptions, backoff_secs, wait, loopPc, loopTodo,
                   loopIssued, bus, netUp, clientStale, discPending,
                   clientLock, subsReaders, callerVars, errs>>
    /\ UNCHANGED <<reqSeq, accepted, discarded>>
    /\ UNCHANGED <<chanVars, cacheVars, dbVars, wsVars, apiVars>>

\* eventloop = new_eventloop drops the old EventLoop with the receiving end
\* of the old channel; the new client has an empty channel of its own
AfterRebuild(q) == <<>>

\* the rebuild with requests waiting in the old channel
ReqRebuild ==
    /\ LoopRebuildStep
    /\ requests' = AfterRebuild(requests)
    /\ discarded' = discarded \cup (PublishRequests(requests)
                                      \ PublishRequests(requests'))
    /\ UNCHANGED <<reqSeq, accepted, handed>>

\* MqttService::publish is called
ReqPublishStart(c) ==
    /\ reqSeq < MaxReqs
    /\ PublishStart(c)

\* client.publish(..).await: the request is sent into the channel
ReqPublishCall(c) ==
    /\ PublishCallStep(c)
    /\ IF cResult'[c] = "ok"
       THEN /\ ~ChannelFull
            /\ requests' = Append(requests, PublishRequest(reqSeq + 1))
            /\ reqSeq' = reqSeq + 1
            /\ accepted' = accepted \cup {reqSeq + 1}
       ELSE UNCHANGED <<requests, reqSeq, accepted>>
    /\ UNCHANGED <<handed, discarded>>

\* client.subscribe(..).await: the request is sent into the channel
ReqSubscribeCall(c) ==
    /\ SubscribeCallStep(c)
    /\ IF cResult'[c] = "ok"
       THEN /\ ~ChannelFull
            /\ requests' = Append(requests, SubscribeRequest)
       ELSE UNCHANGED requests
    /\ UNCHANGED <<reqSeq, accepted, handed, discarded>>

NextRequests ==
    \/ LoopConnAck \/ LoopReplayRead \/ LoopReplayLock \/ ReqReplayNext
    \/ LoopReplayDone \/ ReqPoll \/ LoopErr \/ ReqRebuild \/ LoopSwap
    \/ ReqPublishStart(ReqPublisher) \/ ReqPublishCall(ReqPublisher)
    \/ PublishReturn(ReqPublisher)
    \/ SubscribeStart(ReqSubscriber) \/ ReqSubscribeCall(ReqSubscriber)
    \/ SubscribeTrack(ReqSubscriber) \/ SubscribeReturn(ReqSubscriber)

\* every task is scheduled: the loop task goes on whenever its await can
\* return and the broker answers a connection attempt, a caller that has
\* begun a call goes on with it
ReqFairness ==
    /\ WF_vars(LoopConnAck)
    /\ SF_vars(LoopReplayRead)
    /\ SF_vars(LoopReplayLock)
    /\ WF_vars(ReqReplayNext)
    /\ WF_vars(LoopReplayDone)
    /\ WF_vars(ReqPoll)
    /\ WF_vars(ReqRebuild)
    /\ SF_vars(LoopSwap)
    /\ WF_vars(ReqPublishCall(ReqPublisher))
    /\ WF_vars(PublishReturn(ReqPublisher))
    /\ WF_vars(ReqSubscribeCall(ReqSubscriber))
    /\ SF_vars(SubscribeTrack(ReqSubscriber))
    /\ WF_vars(SubscribeReturn(ReqSubscriber))

SpecRequests == Init /\ [][NextRequests]_vars /\ ReqFairness

\* the loop is in the replay that follows a broker acknowledgment
InReplay == loopPc \in {"replay_read", "replay_lock", "replay"}

\* C31: after every broker acknowledgment the reconnect loop eventually
\* finishes the subscription replay and is back at poll, whatever the number
\* of tracked subscriptions and of requests other callers have queued in the
\* client's request channel.
C31_ReplayEventuallyEnds == InReplay ~> (loopPc = "poll")

\* the replay waits for room in the request channel while the loop task,
\* the only one that takes requests off it, is the task that waits
ReplayWaitsOnFullChannel ==
    /\ loopPc = "replay"
    /\ loopTodo # {}
    /\ ChannelFull

\* a publish waits for room in the request channel with the client mutex
\* held, and the replay waits for that mutex
ReplayWaitsBehindPublish ==
    /\ loopPc = "replay_lock"
    /\ pc[ReqPublisher] = "pub_call"
    /\ clientLock = ReqPublisher
    /\ WellFormedTopic(cTopic[ReqPublisher])
    /\ ChannelFull

\* a request that was in a dropped channel is never handed to a transport
DiscardedIsLost == handed \cap discarded = {}

\* C32: every publish call that returned Ok is eventually taken off the
\* channel by a poll and handed to the transport, whatever transport errors
\* and rebuilds happen in between, and no rebuild discards a request that
\* was queued on the old client.
C32_AcceptedPublishIsHanded ==
    /\ \A n \in 1..MaxReqs : (n \in accepted) ~> (n \in handed)
    /\ [](discarded = {})

====
